---- MODULE Spec2Model ----
(***************************************************************************)
(* Model of push-cli (harperreed/push-cli): the Pushover transport client  *)
(* (internal/pushover), the SQLite message store (internal/db), the        *)
(* message conversion (internal/messages) and the fetch-persist-ack cycle  *)
(* of the `messages` command (internal/cli) and of the check_messages      *)
(* tool (internal/mcp).                                                    *)
(*                                                                         *)
(* The specifications share the variables:                                 *)
(*   SpecTransport  goroutines calling the operations of one Client        *)
(*   Spec           one invocation of the messages command or of the       *)
(*                  check_messages tool, or one read of the push://unread  *)
(*                  resource, against the store it finds                   *)
(*   SpecStore      PersistReceived called on the store, then called again *)
(*                  with the same messages, beside a concurrent reader     *)
(*   SpecHandle     Open, Close and the calls made on one Store value      *)
(*   SpecQuery      QueryMessages with a search text on a stored table     *)
(*   SpecCall       one observed call of a Client operation, from its      *)
(*                  checks to its result, beside the other callers of the  *)
(*                  limiter; SpecCallLive adds the fairness of its steps   *)
(*   SpecSend       the send command, the send_notification tool and the   *)
(*                  mark_read tool, from their checks to the Store         *)
(*   SpecLogin      the login command over the prompter and the Client     *)
(*   SpecLogout     the logout command over the configuration file         *)
(*   SpecServer     the requests one MCP server serves side by side, each  *)
(*                  through the Client its handler builds                  *)
(***************************************************************************)
EXTENDS Integers, Sequences, FiniteSets, TLC

(***************************************************************************)
(* Bounds of the model.                                                    *)
(***************************************************************************)
\* goroutines sharing one Client
NProcs == 3
\* remote identities are drawn from 1..MaxID, the explicit cursor from 0..MaxID
MaxID == 2
\* longest fetched message list
MaxBatch == 2

(***************************************************************************)
(* Program constants.                                                      *)
(***************************************************************************)
\* client.go:20
maxConcurrentRequests == 2
\* client.go:21
defaultRequestAttempts == 2
\* part_000:36 and server.go:302: the default of the limit flag / input
defaultLimit == 10
\* part_004 (db):282: the default of QueryMessages' limit
defaultQueryLimit == 20

Procs == 1..NProcs
Ops == {"Send", "FetchMessages", "DeleteMessages", "Login", "RegisterDevice"}

VARIABLES
    \* ---- transport: one Client shared by the goroutines
    limiter,      \* number of tokens in the Client's limiter channel
    gpc,          \* position of each goroutine inside Client.do / doOnce
    attempt,      \* the loop variable of Client.do
    cancelled,    \* whether the ctx of the goroutine's call is done
    gres,         \* what Client.do returned to the goroutine
    \* ---- store: the messages table and the transaction of PersistMessages
    table,        \* committed rows of the messages table
    tx,           \* the open transaction of PersistMessages
    clock,        \* time.Now()
    q,            \* the observation of a concurrent QueryMessages
    w,            \* the call of PersistReceived / PersistMessages
    \* ---- ingestion cycle
    cycle,        \* the locals of runMessages / handleCheckMessages
    \* ---- one Store value and the calls made on it
    db,           \* the Store's sql handle, the sent table, the last call
    \* ---- one observed call of a Client operation
    call,         \* its inputs, its exchanges and what it returned
    \* ---- the login command
    login,        \* the position and locals of runLogin / performLogin
    \* ---- the handlers that send and acknowledge
    handler       \* the position and locals of runSend, handleSendNotification, handleMarkRead

tvars == <<limiter, gpc, attempt, cancelled, gres>>
svars == <<table, tx, clock, q, w>>
xvars == <<db, call, login, handler>>
vars == <<limiter, gpc, attempt, cancelled, gres, table, tx, clock, q, w, cycle,
          db, call, login, handler>>

(***************************************************************************)
(* Transport: Client.do, Client.doOnce, waitRetry (client.go).             *)
(***************************************************************************)

\* a loop bound that is one too high
AttemptsOneMore(retries) == IF retries <= 0 THEN 1 ELSE retries + 1

\* `attempts := retries; if attempts <= 0 { attempts = 1 }`
Attempts(retries) == IF retries <= 0 THEN 1 ELSE retries

\* a limiter with no capacity check (the send on the channel never blocks)
CanAcquireUnbounded(l) == TRUE

\* `case limiter <- struct{}{}:` is ready while the buffered channel is not full
CanAcquire(l) == l < maxConcurrentRequests

\* a slot that is given back only when the round trip returned a response
DrainOnResponse(l, res) == IF res = "resp" THEN l - 1 ELSE l

\* `defer func() { <-limiter }()`: runs when doOnce returns, whatever
\* client.Do returned
Drain(l, res) == l - 1

\* exchanges of the Client between client.Do's call and its return
InFlight == {g \in Procs : gpc[g] = "inflight"}

TransportInit ==
    /\ limiter = 0
    /\ gpc = [g \in Procs |-> "idle"]
    /\ attempt = [g \in Procs |-> 0]
    /\ cancelled = [g \in Procs |-> FALSE]
    /\ gres = [g \in Procs |-> "none"]

\* a goroutine calls Send, FetchMessages, DeleteMessages, Login or
\* RegisterDevice; each reaches c.do(ctx, build, defaultRequestAttempts), and
\* do treats them alike
Call(g, op) ==
    /\ gpc[g] = "idle"
    /\ op \in Ops
    /\ gpc' = [gpc EXCEPT ![g] = "loop"]
    /\ attempt' = [attempt EXCEPT ![g] = 1]
    /\ cancelled' = [cancelled EXCEPT ![g] = FALSE]
    /\ gres' = [gres EXCEPT ![g] = "none"]
    /\ UNCHANGED limiter
    /\ UNCHANGED <<svars, cycle, db, login, handler>>

\* the caller's cancellation fires at any moment of the call
Cancel(g) ==
    /\ gpc[g] \notin {"idle", "returned"}
    /\ ~cancelled[g]
    /\ cancelled' = [cancelled EXCEPT ![g] = TRUE]
    /\ UNCHANGED <<limiter, gpc, attempt, gres>>
    /\ UNCHANGED <<svars, cycle, db, login, handler>>

\* top of the loop of do: ctx.Err() check, build(), header
LoopTop(g) ==
    /\ gpc[g] = "loop"
    /\ IF cancelled[g]
       THEN /\ gpc' = [gpc EXCEPT ![g] = "returned"]
            /\ gres' = [gres EXCEPT ![g] = "ctxerr"]
       ELSE /\ gpc' = [gpc EXCEPT ![g] = "acquire"]
            /\ UNCHANGED gres
    /\ UNCHANGED <<limiter, attempt, cancelled>>
    /\ UNCHANGED <<svars, cycle, db, login, handler>>

\* doOnce: the select takes the slot
Acquire(g) ==
    /\ gpc[g] = "acquire"
    /\ CanAcquire(limiter)
    /\ limiter' = limiter + 1
    /\ gpc' = [gpc EXCEPT ![g] = "inflight"]
    /\ UNCHANGED <<attempt, cancelled, gres>>
    /\ UNCHANGED <<svars, cycle, db, login, handler>>

\* doOnce: the select takes <-req.Context().Done(); do then returns ctx.Err()
AcquireCancelled(g) ==
    /\ gpc[g] = "acquire"
    /\ cancelled[g]
    /\ gpc' = [gpc EXCEPT ![g] = "returned"]
    /\ gres' = [gres EXCEPT ![g] = "ctxerr"]
    /\ UNCHANGED <<limiter, attempt, cancelled>>
    /\ UNCHANGED <<svars, cycle, db, login, handler>>

\* client.Do(req) returns a response (of any status: do does not read it)
RoundTripResponse(g) ==
    /\ gpc[g] = "inflight"
    /\ gpc' = [gpc EXCEPT ![g] = "release"]
    /\ gres' = [gres EXCEPT ![g] = "resp"]
    /\ UNCHANGED <<limiter, attempt, cancelled>>
    /\ UNCHANGED <<svars, cycle, db, login, handler>>

\* client.Do(req) returns an error (a network failure, a timeout, the ctx)
RoundTripError(g) ==
    /\ gpc[g] = "inflight"
    /\ gpc' = [gpc EXCEPT ![g] = "release"]
    /\ gres' = [gres EXCEPT ![g] = "neterr"]
    /\ UNCHANGED <<limiter, attempt, cancelled>>
    /\ UNCHANGED <<svars, cycle, db, login, handler>>

\* doOnce's deferred `<-limiter`, then the rest of the loop body of do
Release(g) ==
    /\ gpc[g] = "release"
    /\ limiter' = Drain(limiter, gres[g])
    /\ IF gres[g] # "neterr"
       THEN \* err == nil: return resp
            /\ gpc' = [gpc EXCEPT ![g] = "returned"]
            /\ UNCHANGED gres
       ELSE IF cancelled[g]
       THEN /\ gpc' = [gpc EXCEPT ![g] = "returned"]
            /\ gres' = [gres EXCEPT ![g] = "ctxerr"]
       ELSE IF attempt[g] < Attempts(defaultRequestAttempts)
       THEN /\ gpc' = [gpc EXCEPT ![g] = "retryWait"]
            /\ UNCHANGED gres
       ELSE \* the loop ends: return lastErr
            /\ gpc' = [gpc EXCEPT ![g] = "returned"]
            /\ UNCHANGED gres
    /\ UNCHANGED <<attempt, cancelled>>
    /\ UNCHANGED <<svars, cycle, db, login, handler>>

\* waitRetry: the timer fires
RetryTimer(g) ==
    /\ gpc[g] = "retryWait"
    /\ gpc' = [gpc EXCEPT ![g] = "loop"]
    /\ attempt' = [attempt EXCEPT ![g] = attempt[g] + 1]
    /\ gres' = [gres EXCEPT ![g] = "none"]
    /\ UNCHANGED <<limiter, cancelled>>
    /\ UNCHANGED <<svars, cycle, db, login, handler>>

\* waitRetry: ctx.Done() fires
RetryCancelled(g) ==
    /\ gpc[g] = "retryWait"
    /\ cancelled[g]
    /\ gpc' = [gpc EXCEPT ![g] = "returned"]
    /\ gres' = [gres EXCEPT ![g] = "ctxerr"]
    /\ UNCHANGED <<limiter, attempt, cancelled>>
    /\ UNCHANGED <<svars, cycle, db, login, handler>>

\* the operation returns to its caller
Return(g) ==
    /\ gpc[g] = "returned"
    /\ gpc' = [gpc EXCEPT ![g] = "idle"]
    /\ attempt' = [attempt EXCEPT ![g] = 0]
    /\ cancelled' = [cancelled EXCEPT ![g] = FALSE]
    /\ gres' = [gres EXCEPT ![g] = "none"]
    /\ UNCHANGED limiter
    /\ UNCHANGED <<svars, cycle, db, login, handler>>

(***************************************************************************)
(* Store: the messages table and PersistMessages / QueryMessages           *)
(* (internal/db) and the conversion of internal/messages.                  *)
(* A row is [ID, PushoverID, Message, ReceivedAt]: Message stands for the  *)
(* content columns (umid, title, message, app, aid, icon, sent_at,         *)
(* priority, url, acked, html), which the statement writes together.       *)
(***************************************************************************)

\* contents a message can have
Vals == {"a", "b"}

\* pushover.ReceivedMessage
ReceivedMessages == [PushoverID : 1..MaxID, Message : Vals]

\* the message lists a fetch response can carry
MessageLists == UNION {[1..n -> ReceivedMessages] : n \in 0..MaxBatch}

Max(S) == CHOOSE x \in S : \A y \in S : y <= x

Min2(a, b) == IF a <= b THEN a ELSE b

\* id INTEGER PRIMARY KEY: SQLite assigns the largest rowid plus one
NextRowID(t) == IF t = {} THEN 1 ELSE Max({r.ID : r \in t}) + 1

\* INSERT OR REPLACE: a conflicting row is deleted and the record inserted
\* as a new row
UpsertReplace(t, rec) ==
    {r \in t : r.PushoverID # rec.PushoverID}
    \cup {[ID |-> NextRowID(t), PushoverID |-> rec.PushoverID,
           Message |-> rec.Message, ReceivedAt |-> rec.ReceivedAt]}

\* an insert that ignores a row whose pushover_id is already stored
\* (ON CONFLICT DO NOTHING)
UpsertIgnore(t, rec) ==
    IF \E r \in t : r.PushoverID = rec.PushoverID
    THEN t
    ELSE t \cup {[ID |-> NextRowID(t), PushoverID |-> rec.PushoverID,
                  Message |-> rec.Message, ReceivedAt |-> rec.ReceivedAt]}

\* INSERT INTO messages ... ON CONFLICT(pushover_id) DO UPDATE SET ...:
\* pushover_id is UNIQUE; a conflicting row keeps its id and takes every
\* other column from the new record
Upsert(t, rec) ==
    IF \E r \in t : r.PushoverID = rec.PushoverID
    THEN {IF r.PushoverID = rec.PushoverID
          THEN [r EXCEPT !.Message = rec.Message, !.ReceivedAt = rec.ReceivedAt]
          ELSE r : r \in t}
    ELSE t \cup {[ID |-> NextRowID(t), PushoverID |-> rec.PushoverID,
                  Message |-> rec.Message, ReceivedAt |-> rec.ReceivedAt]}

\* the loop of PersistMessages run to its end: every record executed in order
RECURSIVE InsertAll(_, _, _)
InsertAll(t, recs, i) ==
    IF i > Len(recs) THEN t ELSE InsertAll(Upsert(t, recs[i]), recs, i + 1)

\* RecordsFromReceived: one db.MessageRecord per message, ReceivedAt =
\* time.Now() read once per message; d is what the clock advances between
\* two reads (0: the reads coincide)
RecordsFromReceived(msgs, now, d) ==
    [i \in 1..Len(msgs) |->
        [PushoverID |-> msgs[i].PushoverID,
         Message |-> msgs[i].Message,
         ReceivedAt |-> now + (i - 1) * d]]

\* the statement run on the database handle instead of the transaction:
\* every row is committed as it is executed
ExecInsertAutocommit(committed, working, rec) ==
    [committed |-> Upsert(committed, rec), working |-> Upsert(working, rec)]

\* stmt.ExecContext inside the transaction: only the transaction sees the row
ExecInsert(committed, working, rec) ==
    [committed |-> committed, working |-> Upsert(working, rec)]

NoTx == [active |-> FALSE, working |-> {}, idx |-> 0, inserted |-> 0]

\* the rows QueryMessages' WHERE clause keeps (since = 0: no threshold;
\* the reader of this model passes search = "", which adds no clause)
Matching(t, since) == {r \in t : since = 0 \/ r.ReceivedAt >= since}

\* `if limit <= 0 { limit = 20 }`
QueryLimit(limit) == IF limit <= 0 THEN defaultQueryLimit ELSE limit

\* ORDER BY received_at DESC LIMIT ?: the possible results over the rows m
\* that pass the WHERE clause; rows with equal received_at come in an order
\* the statement does not fix
NewestFirst(m, limit) ==
    LET n == Min2(QueryLimit(limit), Cardinality(m))
    IN {s \in [1..n -> m] :
          /\ \A i, j \in 1..n : i < j => /\ s[i] # s[j]
                                         /\ s[i].ReceivedAt >= s[j].ReceivedAt
          /\ \A r \in m : (\A i \in 1..n : s[i] # r) =>
                             \A i \in 1..n : s[i].ReceivedAt >= r.ReceivedAt}

\* QueryMessages with search = ""
QueryMessages(t, limit, since) == NewestFirst(Matching(t, since), limit)

NoQuery == [made |-> FALSE, limit |-> 0, since |-> 0, rows |-> <<>>, midBatch |-> FALSE]

\* no call of PersistReceived yet
NoCall ==
    [pc |-> "idle", msgs |-> <<>>, records |-> <<>>, inserted |-> 0, err |-> "",
     calls |-> 0, commits |-> 0, startTable |-> {}]

\* what the database file holds when the process opens it: nothing, or the
\* row of an earlier ingestion of one message at time 1
StoredTables ==
    {InsertAll({}, RecordsFromReceived(msgs, 1, 1), 1) :
        msgs \in {<<>>, <<[PushoverID |-> 1, Message |-> "a"]>>}}

StoreInit ==
    /\ table \in StoredTables
    /\ tx = NoTx
    /\ clock = 2
    /\ q = NoQuery
    /\ w = NoCall

\* PersistReceived(ctx, store, msgs) is entered
Called(msgs) ==
    [w EXCEPT !.pc = "called", !.msgs = msgs, !.records = <<>>, !.inserted = 0,
              !.err = "", !.calls = @ + 1, !.startTable = table]

\* PersistReceived with no message: `return 0, nil`
PersistEmpty ==
    /\ w.pc = "called"
    /\ Len(w.msgs) = 0
    /\ w' = [w EXCEPT !.pc = "returned"]
    /\ UNCHANGED <<table, tx, clock, q, cycle>>
    /\ UNCHANGED <<tvars, xvars>>

\* PersistReceived: RecordsFromReceived, then PersistMessages up to BeginTx
\* and PrepareContext, which succeed
PersistBegin(d) ==
    /\ w.pc = "called"
    /\ Len(w.msgs) > 0
    /\ w' = [w EXCEPT !.pc = "exec",
                      !.records = RecordsFromReceived(w.msgs, clock, d)]
    /\ clock' = clock + (Len(w.msgs) - 1) * d + 1
    /\ tx' = [active |-> TRUE, working |-> table, idx |-> 0, inserted |-> 0]
    /\ UNCHANGED <<table, q, cycle>>
    /\ UNCHANGED <<tvars, xvars>>

\* BeginTx or PrepareContext fails: `return 0, err` (after a rollback)
PersistBeginFail(err) ==
    /\ w.pc = "called"
    /\ Len(w.msgs) > 0
    /\ w' = [w EXCEPT !.pc = "returned", !.inserted = 0, !.err = err]
    /\ clock' = clock + 1
    /\ UNCHANGED <<table, tx, q, cycle>>
    /\ UNCHANGED <<tvars, xvars>>

\* one stmt.ExecContext of the loop succeeds: `inserted++`
PersistExec ==
    /\ w.pc = "exec"
    /\ tx.active
    /\ tx.idx < Len(w.records)
    /\ LET r == ExecInsert(table, tx.working, w.records[tx.idx + 1])
       IN /\ table' = r.committed
          /\ tx' = [tx EXCEPT !.working = r.working, !.idx = @ + 1, !.inserted = @ + 1]
    /\ UNCHANGED <<clock, q, w, cycle>>
    /\ UNCHANGED <<tvars, xvars>>

\* one stmt.ExecContext fails: tx.Rollback(), `return inserted, err`
PersistExecFail ==
    /\ w.pc = "exec"
    /\ tx.active
    /\ tx.idx < Len(w.records)
    /\ w' = [w EXCEPT !.pc = "returned", !.inserted = tx.inserted,
                      !.err = "insert message"]
    /\ tx' = NoTx
    /\ UNCHANGED <<table, clock, q, cycle>>
    /\ UNCHANGED <<tvars, xvars>>

\* tx.Commit() succeeds: `return inserted, nil`
PersistCommit ==
    /\ w.pc = "exec"
    /\ tx.active
    /\ tx.idx = Len(w.records)
    /\ table' = tx.working
    /\ w' = [w EXCEPT !.pc = "returned", !.inserted = tx.inserted, !.commits = @ + 1]
    /\ tx' = NoTx
    /\ UNCHANGED <<clock, q, cycle>>
    /\ UNCHANGED <<tvars, xvars>>

\* tx.Commit() fails: `return inserted, err`; nothing of the transaction is
\* written
PersistCommitFail ==
    /\ w.pc = "exec"
    /\ tx.active
    /\ tx.idx = Len(w.records)
    /\ w' = [w EXCEPT !.pc = "returned", !.inserted = tx.inserted,
                      !.err = "commit messages"]
    /\ tx' = NoTx
    /\ UNCHANGED <<table, clock, q, cycle>>
    /\ UNCHANGED <<tvars, xvars>>

\* the steps of one call of PersistReceived
PersistNext ==
    \/ PersistEmpty
    \/ \E d \in {0, 1} : PersistBegin(d)
    \/ \E err \in {"begin tx", "prepare insert"} : PersistBeginFail(err)
    \/ PersistExec
    \/ PersistExecFail
    \/ PersistCommit
    \/ PersistCommitFail

\* the process ingests a message list, and then the same list once more (the
\* remote service delivers a list again until an acknowledgment reaches it)
Reingest(msgs) ==
    /\ w.pc \in {"idle", "returned"}
    /\ w.calls < 2
    /\ w.calls = 0 \/ msgs = w.msgs
    /\ w' = Called(msgs)
    /\ UNCHANGED <<table, tx, clock, q, cycle>>
    /\ UNCHANGED <<tvars, xvars>>

\* thresholds a reader passes as `since` (0: none)
Sinces == {0, 3}

\* the limit a reader passes (0: the default)
QueryLimits == {0, 1}

\* a concurrent QueryMessages (the history command, the list_history tool):
\* one SELECT on the database handle, which reads the committed rows
Query(limit, since) ==
    /\ q = NoQuery
    /\ \E rows \in QueryMessages(table, limit, since) :
          q' = [made |-> TRUE, limit |-> limit, since |-> since, rows |-> rows,
                midBatch |-> tx.active /\ tx.idx > 0]
    /\ UNCHANGED <<table, tx, clock, w, cycle>>
    /\ UNCHANGED <<tvars, xvars>>

\* QueryMessages returns; the observation is judged in the state it was made
QueryReturn ==
    /\ q # NoQuery
    /\ q' = NoQuery
    /\ UNCHANGED <<table, tx, clock, w, cycle>>
    /\ UNCHANGED <<tvars, xvars>>

(***************************************************************************)
(* Ingestion cycle: runMessages (internal/cli) and handleCheckMessages     *)
(* (internal/mcp): FetchMessages, PersistReceived, DeleteMessages.         *)
(***************************************************************************)

Kinds == {"cli", "mcp"}

\* the limit flag / input: 0 stands for absent or non-positive, 1 cuts every
\* list of two or more messages
Limits == {0, 1}

\* `for _, msg := range msgs { if msg.PushoverID > highest { highest = ... } }`
RECURSIVE HighestFrom(_, _, _)
HighestFrom(msgs, i, highest) ==
    IF i > Len(msgs) THEN highest
    ELSE HighestFrom(msgs, i + 1,
                     IF msgs[i].PushoverID > highest THEN msgs[i].PushoverID ELSE highest)

\* a cursor that ignores the explicit cursor of the response
determineAckIDNoCursor(result) == HighestFrom(result.Messages, 1, 0)

\* a cursor that is the larger of the explicit cursor and the highest
\* identity of the list
determineAckIDLarger(result) ==
    IF result.LastMessageID > HighestFrom(result.Messages, 1, 0)
    THEN result.LastMessageID
    ELSE HighestFrom(result.Messages, 1, 0)

\* determineAckID (server.go): a fetch result is [Messages, LastMessageID]
determineAckID(result) ==
    IF result.LastMessageID > 0 THEN result.LastMessageID
    ELSE HighestFrom(result.Messages, 1, 0)

\* a cursor taken from the last message of the list instead of the highest
highestMessageIDLast(result, msgs) ==
    IF result.LastMessageID > 0 THEN result.LastMessageID
    ELSE IF Len(msgs) = 0 THEN 0 ELSE msgs[Len(msgs)].PushoverID

\* highestMessageID (messages command)
highestMessageID(result, msgs) ==
    IF result.LastMessageID > 0 THEN result.LastMessageID
    ELSE HighestFrom(msgs, 1, 0)

\* the cursor of a cycle of either kind
AckCursor(kind, result) ==
    IF kind = "cli" THEN highestMessageID(result, result.Messages)
    ELSE determineAckID(result)

\* an acknowledge guard that lets cursor 0 through
ShouldAckAlways(id) == id >= 0

\* `if last > 0 {` / `if ackedID > 0 {`
ShouldAck(id) == id > 0

\* `limit := 10; if input.Limit != nil && *input.Limit > 0 { limit = ... }`
EffectiveLimit(limit) == IF limit <= 0 THEN defaultLimit ELSE limit

\* an output that is never cut to the limit
OutgoingUnlimited(msgs, limit) == msgs

\* `outgoing := result.Messages; if len(outgoing) > limit { outgoing[:limit] }`
Outgoing(msgs, limit) == SubSeq(msgs, 1, Min2(Len(msgs), limit))

\* a cycle that acknowledges right after the fetch
AfterFetchAckFirst(kind) == "ack"

\* what follows a successful fetch: the command opens the store first
AfterFetch(kind) == IF kind = "cli" THEN "open" ELSE "persist"

\* a fetch error that is dropped: the cycle goes on with an empty result
AfterFetchErrorIgnored(kind) == AfterFetch(kind)

\* `if err != nil { return err }` after FetchMessages
AfterFetchError(kind) == "failed"

\* a persistence error that ends the cycle
AfterPersistErrorFatal == "failed"

\* a persistence error becomes a warning and the cycle goes on
AfterPersistError == "ack"

\* an acknowledgment error that overwrites the persistence warning
AckWarningShared(warning, err) == [Warning |-> err, AckWarning |-> ""]

\* `ackWarning = err.Error()`: a variable of its own
AckWarningSet(warning, err) == [Warning |-> warning, AckWarning |-> err]

NoOutput == <<>>

IdleCycle ==
    [pc |-> "idle", kind |-> "none",
     fetched |-> FALSE, fetchErr |-> FALSE,
     result |-> [Messages |-> <<>>, LastMessageID |-> 0],
     persistCalls |-> 0, persistDone |-> FALSE, persisted |-> 0,
     persistErr |-> "", warning |-> "",
     ackedID |-> 0, acks |-> <<>>, ackErr |-> FALSE, ackWarning |-> "",
     output |-> NoOutput, retErr |-> "",
     startTable |-> {}]

CycleInit == cycle = IdleCycle

\* the command or the tool is invoked (the configuration passes
\* ValidateReceive)
StartCycle(kind) ==
    /\ cycle.pc = "idle"
    /\ cycle' = [cycle EXCEPT !.pc = "fetch", !.kind = kind,
                              !.startTable = table]
    /\ UNCHANGED svars
    /\ UNCHANGED <<tvars, xvars>>

\* client.FetchMessages returns a result
FetchOk(msgs, last) ==
    /\ cycle.pc = "fetch"
    /\ cycle' = [cycle EXCEPT !.pc = AfterFetch(cycle.kind), !.fetched = TRUE,
                              !.result = [Messages |-> msgs, LastMessageID |-> last]]
    /\ UNCHANGED svars
    /\ UNCHANGED <<tvars, xvars>>

\* client.FetchMessages returns an error
FetchFail ==
    /\ cycle.pc = "fetch"
    /\ cycle' = [cycle EXCEPT !.pc = AfterFetchError(cycle.kind), !.fetchErr = TRUE,
                              !.retErr = "fetch"]
    /\ UNCHANGED svars
    /\ UNCHANGED <<tvars, xvars>>

\* openStore() of the command
OpenStoreOk ==
    /\ cycle.pc = "open"
    /\ cycle' = [cycle EXCEPT !.pc = "persist"]
    /\ UNCHANGED svars
    /\ UNCHANGED <<tvars, xvars>>

\* openStore() fails: `return err`
OpenStoreFail ==
    /\ cycle.pc = "open"
    /\ cycle' = [cycle EXCEPT !.pc = "failed", !.retErr = "open database"]
    /\ UNCHANGED svars
    /\ UNCHANGED <<tvars, xvars>>

\* `messages.PersistReceived(ctx, store, result.Messages)` is called
PersistCall ==
    /\ cycle.pc = "persist"
    /\ w.pc = "idle"
    /\ w' = Called(cycle.result.Messages)
    /\ cycle' = [cycle EXCEPT !.pc = "persisting", !.persistCalls = @ + 1]
    /\ UNCHANGED <<table, tx, clock, q>>
    /\ UNCHANGED <<tvars, xvars>>

\* PersistReceived has returned (persisted, err): the tool keeps err.Error()
\* as its warning, the command writes it to stderr
PersistReturn ==
    /\ cycle.pc = "persisting"
    /\ w.pc = "returned"
    /\ cycle' = [cycle EXCEPT !.pc = IF w.err = "" THEN "ack" ELSE AfterPersistError,
                              !.persistDone = TRUE,
                              !.persisted = w.inserted,
                              !.persistErr = w.err,
                              !.warning = w.err]
    /\ w' = [w EXCEPT !.pc = "idle"]
    /\ UNCHANGED <<table, tx, clock, q>>
    /\ UNCHANGED <<tvars, xvars>>

\* a cycle that calls DeleteMessages again after the call has returned
AfterAckAgain == "ack"

\* after the `if ackedID > 0 { ... }` block the cycle builds its output
AfterAck == "output"

\* the cursor is not positive: no DeleteMessages
AckSkip ==
    /\ cycle.pc = "ack"
    /\ ~ShouldAck(AckCursor(cycle.kind, cycle.result))
    /\ cycle' = [cycle EXCEPT !.pc = AfterAck,
                              !.ackedID = AckCursor(cycle.kind, cycle.result)]
    /\ UNCHANGED svars
    /\ UNCHANGED <<tvars, xvars>>

\* client.DeleteMessages(ctx, cursor) returns nil
AckOk ==
    /\ cycle.pc = "ack"
    /\ ShouldAck(AckCursor(cycle.kind, cycle.result))
    /\ cycle' = [cycle EXCEPT !.pc = AfterAck,
                              !.ackedID = AckCursor(cycle.kind, cycle.result),
                              !.acks = Append(@, AckCursor(cycle.kind, cycle.result))]
    /\ UNCHANGED svars
    /\ UNCHANGED <<tvars, xvars>>

\* client.DeleteMessages(ctx, cursor) returns an error
AckFail ==
    /\ cycle.pc = "ack"
    /\ ShouldAck(AckCursor(cycle.kind, cycle.result))
    /\ LET ws == AckWarningSet(cycle.warning, "ack failed")
       IN cycle' = [cycle EXCEPT !.pc = AfterAck,
                                 !.ackedID = AckCursor(cycle.kind, cycle.result),
                                 !.acks = Append(@, AckCursor(cycle.kind, cycle.result)),
                                 !.ackErr = TRUE,
                                 !.warning = ws.Warning,
                                 !.ackWarning = ws.AckWarning]
    /\ UNCHANGED svars
    /\ UNCHANGED <<tvars, xvars>>

\* the tool builds CheckMessagesOutput and returns it; the command prints the
\* messages and returns nil, having written its warnings to stderr (Warning
\* and AckWarning then stand for the two lines on stderr). The limit is read
\* before the fetch and first used here, where the model draws it.
Output(limit) ==
    /\ cycle.pc = "output"
    /\ LET outgoing == Outgoing(cycle.result.Messages, EffectiveLimit(limit))
       IN cycle' = [cycle EXCEPT !.pc = "done",
                       !.output = <<[Count |-> Len(cycle.result.Messages),
                                     Returned |-> Len(outgoing),
                                     Limit |-> EffectiveLimit(limit),
                                     Persisted |-> cycle.persisted,
                                     AckedUpTo |-> cycle.ackedID,
                                     Messages |-> outgoing,
                                     Warning |-> cycle.warning,
                                     AckWarning |-> cycle.ackWarning]>>]
    /\ UNCHANGED svars
    /\ UNCHANGED <<tvars, xvars>>

\* a resource read that goes on to ingest what it fetched
AfterUnreadFetchIngest == "persist"

\* push://unread: after FetchMessages the handler builds its payload and
\* returns it
AfterUnreadFetch == "served"

\* the push://unread resource is read (the configuration passes
\* ValidateReceive): s.newClient()
UnreadStart ==
    /\ cycle.pc = "idle"
    /\ cycle' = [cycle EXCEPT !.pc = "unread", !.kind = "unread",
                              !.startTable = table]
    /\ UNCHANGED svars
    /\ UNCHANGED <<tvars, xvars>>

\* client.FetchMessages returns a result: the payload carries
\* len(result.Messages) and result.Messages
UnreadFetchOk(msgs, last) ==
    /\ cycle.pc = "unread"
    /\ cycle' = [cycle EXCEPT !.pc = AfterUnreadFetch, !.fetched = TRUE,
                              !.result = [Messages |-> msgs, LastMessageID |-> last],
                              !.output = <<[Count |-> Len(msgs), Data |-> msgs]>>]
    /\ UNCHANGED svars
    /\ UNCHANGED <<tvars, xvars>>

\* client.FetchMessages returns an error: `return nil, err`
UnreadFetchFail ==
    /\ cycle.pc = "unread"
    /\ cycle' = [cycle EXCEPT !.pc = "failed", !.fetchErr = TRUE,
                              !.retErr = "fetch"]
    /\ UNCHANGED svars
    /\ UNCHANGED <<tvars, xvars>>

CycleNext ==
    \/ \E kind \in Kinds : StartCycle(kind)
    \/ \E msgs \in MessageLists, last \in 0..MaxID : FetchOk(msgs, last)
    \/ FetchFail
    \/ OpenStoreOk
    \/ OpenStoreFail
    \/ PersistCall
    \/ PersistReturn
    \/ AckSkip
    \/ AckOk
    \/ AckFail
    \/ \E limit \in Limits : Output(limit)
    \/ UnreadStart
    \/ \E msgs \in MessageLists, last \in 0..MaxID : UnreadFetchOk(msgs, last)
    \/ UnreadFetchFail

(***************************************************************************)
(* One Store value (internal/db): its sql handle from before Open to after *)
(* Close, and the calls made on it. A call on an open handle is taken as   *)
(* one step here; its steps are those of PersistNext above.                *)
(***************************************************************************)

\* `errors.New("database not initialized")`
ErrNotInitialized == "database not initialized"

\* database/sql's error for a call on a DB after DB.Close
ErrDatabaseClosed == "sql: database is closed"

\* an error of the SQLite driver (busy, disk, constraint)
ErrIO == "disk I/O error"

StoreOps == {"PersistMessages", "LogSent", "QueryMessages"}

\* the last call made on the Store: `on` is the handle it found, `args` the
\* number of records passed, `n` the count and `err` the error it returned
\* (the cause of the wrapped error; "" for nil)
NoStoreCall == [op |-> "none", on |-> "nil", args |-> 0, n |-> 0, err |-> ""]

\* a Store that Open has not returned yet: a nil *Store, or one whose sql
\* field is nil
NoStore == [sql |-> "nil", sent |-> <<>>, last |-> NoStoreCall]

StoreCallInit == db = NoStore

\* Open: sql.Open, the busy_timeout pragma and migrate succeed
StoreOpen ==
    /\ db.sql = "nil"
    /\ db' = [db EXCEPT !.sql = "open",
                        !.last = [NoStoreCall EXCEPT !.op = "Open"]]
    /\ UNCHANGED <<tvars, svars, cycle, call, login, handler>>

\* Close: `if s == nil || s.sql == nil { return nil }; return s.sql.Close()`;
\* the sql field keeps pointing at the closed DB
StoreClose ==
    /\ db' = [db EXCEPT !.sql = IF db.sql = "nil" THEN "nil" ELSE "closed",
                        !.last = [NoStoreCall EXCEPT !.op = "Close", !.on = db.sql]]
    /\ UNCHANGED <<tvars, svars, cycle, call, login, handler>>

\* what PersistMessages returns on the handle it finds; ok tells whether the
\* driver carries the batch through on an open handle
PersistMessagesResult(sql, recs, ok) ==
    IF sql = "nil" THEN [n |-> 0, err |-> ErrNotInitialized, applied |-> FALSE]
    ELSE IF Len(recs) = 0 THEN [n |-> 0, err |-> "", applied |-> FALSE]
    ELSE IF sql = "closed" THEN [n |-> 0, err |-> ErrDatabaseClosed, applied |-> FALSE]
    ELSE IF ok THEN [n |-> Len(recs), err |-> "", applied |-> TRUE]
    ELSE [n |-> 0, err |-> ErrIO, applied |-> FALSE]

\* Store.PersistMessages(ctx, recs)
StorePersistMessages(msgs, ok) ==
    /\ tx = NoTx
    /\ LET recs == RecordsFromReceived(msgs, clock, 0)
           r == PersistMessagesResult(db.sql, recs, ok)
       IN /\ table' = IF r.applied THEN InsertAll(table, recs, 1) ELSE table
          /\ db' = [db EXCEPT !.last = [op |-> "PersistMessages", on |-> db.sql,
                                        args |-> Len(recs), n |-> r.n, err |-> r.err]]
    /\ UNCHANGED <<tvars, tx, clock, q, w, cycle, call, login, handler>>

\* what LogSent returns on the handle it finds
LogSentResult(sql, ok) ==
    IF sql = "nil" THEN ErrNotInitialized
    ELSE IF sql = "closed" THEN ErrDatabaseClosed
    ELSE IF ok THEN ""
    ELSE ErrIO

\* longest sent table the model follows
MaxSent == 2

\* a sent table keyed by request id: a record replaces the one of its id
ReplaceSent(sent, rec) ==
    IF \E i \in 1..Len(sent) : sent[i].RequestID = rec.RequestID
    THEN [i \in 1..Len(sent) |->
            IF sent[i].RequestID = rec.RequestID THEN rec ELSE sent[i]]
    ELSE Append(sent, rec)

\* `INSERT INTO sent (...) VALUES (...)`: the table has its own
\* autoincrement key, the row is added behind the others
AppendSent(sent, rec) == Append(sent, rec)

\* Store.LogSent(ctx, rec): one INSERT INTO sent
StoreLogSent(rec, ok) ==
    /\ Len(db.sent) < MaxSent
    /\ LET err == LogSentResult(db.sql, ok)
       IN db' = [db EXCEPT !.sent = IF err = "" THEN AppendSent(@, rec) ELSE @,
                           !.last = [op |-> "LogSent", on |-> db.sql, args |-> 1,
                                     n |-> 0, err |-> err]]
    /\ UNCHANGED <<tvars, svars, cycle, call, login, handler>>

\* what QueryMessages returns on the handle it finds
QueryMessagesResult(sql, ok) ==
    IF sql = "nil" THEN ErrNotInitialized
    ELSE IF sql = "closed" THEN ErrDatabaseClosed
    ELSE IF ok THEN ""
    ELSE ErrIO

\* Store.QueryMessages(ctx, limit, since, ""): n is the number of rows
StoreQueryMessages(limit, since, ok) ==
    /\ LET err == QueryMessagesResult(db.sql, ok)
       IN \E rows \in QueryMessages(table, limit, since) :
             db' = [db EXCEPT !.last = [op |-> "QueryMessages", on |-> db.sql,
                                        args |-> 0,
                                        n |-> IF err = "" THEN Len(rows) ELSE 0,
                                        err |-> err]]
    /\ UNCHANGED <<tvars, svars, cycle, call, login, handler>>

HNext ==
    \/ StoreOpen
    \/ StoreClose
    \/ \E msgs \in MessageLists, ok \in BOOLEAN : StorePersistMessages(msgs, ok)
    \/ \E rec \in [Message : Vals], ok \in BOOLEAN : StoreLogSent(rec, ok)
    \/ \E limit \in QueryLimits, since \in Sinces, ok \in BOOLEAN :
          StoreQueryMessages(limit, since, ok)

(***************************************************************************)
(* QueryMessages with a search text (internal/db). Title and Message are   *)
(* sequences of characters here, so that LIKE is computed on them.         *)
(***************************************************************************)

\* bodies, titles and search texts of the model
Bodies == {<<"x">>, <<"E">>, <<"e", "x">>}
Titles == {<<>>, <<"e">>}
Searches == {<<>>, <<"e">>, <<"x", "e">>, <<"_">>, <<"%">>}

\* receipt times of the stored rows
ReceivedTimes == {2, 3}

\* SQLite folds the case of ASCII letters in LIKE
Lower(c) == IF c = "E" THEN "e" ELSE IF c = "X" THEN "x" ELSE c

\* SQLite's LIKE without ESCAPE: % matches any run of characters, _ matches
\* any one character, every other character matches itself up to case
RECURSIVE Like(_, _)
Like(p, t) ==
    IF p = <<>> THEN t = <<>>
    ELSE IF Head(p) = "%" THEN Like(Tail(p), t) \/ (t # <<>> /\ Like(p, Tail(t)))
    ELSE /\ t # <<>>
         /\ Head(p) = "_" \/ Lower(Head(p)) = Lower(Head(t))
         /\ Like(Tail(p), Tail(t))

\* `like := fmt.Sprintf("%%%s%%", search)`
LikePattern(search) == <<"%">> \o search \o <<"%">>

\* the WHERE clause: received_at >= since when given, and
\* (message LIKE ? OR title LIKE ?) when search is not empty
MatchingSearch(t, since, search) ==
    {r \in Matching(t, since) :
        search = <<>> \/ Like(LikePattern(search), r.Message)
                      \/ Like(LikePattern(search), r.Title)}

\* QueryMessages(ctx, limit, since, search)
QueryMessagesSearch(t, limit, since, search) ==
    NewestFirst(MatchingSearch(t, since, search), limit)

\* the tables a history query can find: rows 1..n ingested in this order
QueryTables ==
    UNION {{{[ID |-> i, PushoverID |-> i, Title |-> f[i].Title,
              Message |-> f[i].Message, ReceivedAt |-> f[i].ReceivedAt] : i \in 1..n} :
             f \in [1..n -> [Title : Titles, Message : Bodies, ReceivedAt : ReceivedTimes]]} :
           n \in 0..MaxID}

QInit ==
    /\ TransportInit
    /\ table \in QueryTables
    /\ tx = NoTx
    /\ clock = 4
    /\ q = NoQuery
    /\ w = NoCall
    /\ cycle = [pc |-> "idle"]
    /\ db = [sql |-> "open", sent |-> <<>>, last |-> <<>>]
    /\ call = [pc |-> "idle"]
    /\ login = [pc |-> "idle"]
    /\ handler = [pc |-> "idle"]

\* the history command / list_history tool calls QueryMessages
QuerySearch(limit, since, search) ==
    /\ q = NoQuery
    /\ \E rows \in QueryMessagesSearch(table, limit, since, search) :
          q' = [made |-> TRUE, limit |-> limit, since |-> since, search |-> search,
                rows |-> rows, midBatch |-> FALSE]
    /\ UNCHANGED <<tvars, table, tx, clock, w, cycle, xvars>>

QNext ==
    \/ \E limit \in QueryLimits, since \in Sinces, search \in Searches :
          QuerySearch(limit, since, search)
    \/ QueryReturn

(***************************************************************************)
(* One observed call of a Client operation (internal/pushover): its        *)
(* precondition checks, its pass through Client.do as goroutine Caller     *)
(* beside other callers of the same Client, and the decoding of the        *)
(* response. Texts are sequences of characters.                            *)
(***************************************************************************)

\* the goroutine of the observed call
Caller == 1

\* strings.TrimSpace
RECURSIVE TrimLeft(_)
TrimLeft(t) == IF t # <<>> /\ Head(t) = " " THEN TrimLeft(Tail(t)) ELSE t

RECURSIVE TrimRight(_)
TrimRight(t) ==
    IF t # <<>> /\ t[Len(t)] = " " THEN TrimRight(SubSeq(t, 1, Len(t) - 1)) ELSE t

TrimSpace(t) == TrimRight(TrimLeft(t))

\* the credential fields a Client can carry: absent, blank or set
ClientConfigs ==
    [AppToken : {<<" ">>, <<"t">>},
     UserKey : {<<>>, <<"u">>},
     DeviceID : {<<" ">>, <<"d">>},
     DeviceSecret : {<<>>, <<"s">>}]

\* the arguments of each operation; Login gets its email and password from
\* the prompter, which trims the lines it reads
ArgsOf(op) ==
    CASE op = "Send" -> [Message : {<<>>, <<" ">>, <<"m">>}]
      [] op = "FetchMessages" -> {[none |-> TRUE]}
      [] op = "DeleteMessages" -> [UpToID : {-1, 0, 1}]
      [] op = "Login" -> [Email : {<<>>, <<"e">>}, Password : {<<>>, <<"p">>}]
      [] op = "RegisterDevice" -> [Secret : {<<>>, <<"s">>}, Name : {<<>>, <<"n">>}]

\* a credential check that compares with "" only
ensureSendCredentialsUntrimmed(c) ==
    IF c.AppToken = <<>> THEN "pushover: app token not configured"
    ELSE IF c.UserKey = <<>> THEN "pushover: user key not configured"
    ELSE ""

\* ensureSendCredentials: "" stands for nil
ensureSendCredentials(c) ==
    IF TrimSpace(c.AppToken) = <<>> THEN "pushover: app token not configured"
    ELSE IF TrimSpace(c.UserKey) = <<>> THEN "pushover: user key not configured"
    ELSE ""

\* ensureReceiveCredentials
ensureReceiveCredentials(c) ==
    IF ensureSendCredentials(c) # "" THEN ensureSendCredentials(c)
    ELSE IF TrimSpace(c.DeviceID) = <<>> \/ TrimSpace(c.DeviceSecret) = <<>>
    THEN "pushover: device credentials missing"
    ELSE ""

\* a Login that checks its email only
LoginPrecheckEmailOnly(a) ==
    IF a.Email = <<>> THEN "email and password are required" ELSE ""

\* Login: `if email == "" || password == ""`
LoginPrecheck(a) ==
    IF a.Email = <<>> \/ a.Password = <<>>
    THEN "email and password are required"
    ELSE ""

\* the checks each operation makes before it builds its request: the error
\* it returns, "" when it goes on to c.do
Precheck(op, c, a) ==
    CASE op = "Send" ->
            IF ensureSendCredentials(c) # "" THEN ensureSendCredentials(c)
            ELSE IF TrimSpace(a.Message) = <<>> THEN "message cannot be empty"
            ELSE ""
      [] op = "FetchMessages" -> ensureReceiveCredentials(c)
      [] op = "DeleteMessages" ->
            IF ensureReceiveCredentials(c) # "" THEN ensureReceiveCredentials(c)
            ELSE IF a.UpToID <= 0 THEN "message id must be positive"
            ELSE ""
      [] op = "Login" -> LoginPrecheck(a)
      [] op = "RegisterDevice" ->
            IF a.Secret = <<>> THEN "secret is required"
            ELSE IF a.Name = <<>> THEN "device name is required"
            ELSE ""

\* HTTP statuses of a response
Statuses == {200, 400, 412, 500}

\* response bodies: a JSON object (raw is its text), a text that is no JSON,
\* or nothing
ResponseBodies ==
    [kind : {"json"}, raw : {<<"{", "}">>}, status : {0, 1}, request : {<<"r">>},
     errors : {<<>>, << <<"b">> >>}, secret : {<<>>, <<"s">>}]
    \cup {[kind |-> "text", raw |-> <<" ", "o", " ">>], [kind |-> "empty", raw |-> <<>>]}

Responses == [StatusCode : Statuses, Body : ResponseBodies]

\* json.Unmarshal(body, &payload) of decodeAPIError, its error dropped: the
\* payload stays zero unless the body is a JSON object
ErrorPayload(body) ==
    IF body.kind = "json"
    THEN [Status |-> body.status, Request |-> body.request, Errors |-> body.errors]
    ELSE [Status |-> 0, Request |-> <<>>, Errors |-> <<>>]

\* a decodeAPIError without the case of status 412
decodeAPIErrorNo412(resp) ==
    LET payload == ErrorPayload(resp.Body)
    IN [type |-> "APIError",
        Status |-> IF payload.Status = 0 THEN resp.StatusCode ELSE payload.Status,
        RequestID |-> payload.Request,
        Messages |-> IF Len(payload.Errors) = 0 /\ Len(resp.Body.raw) > 0
                     THEN <<TrimSpace(resp.Body.raw)>>
                     ELSE payload.Errors]

\* decodeAPIError
decodeAPIError(resp) ==
    IF resp.StatusCode = 412
    THEN [type |-> "ErrTwoFactorRequired"]
    ELSE LET payload == ErrorPayload(resp.Body)
         IN [type |-> "APIError",
             Status |-> IF payload.Status = 0 THEN resp.StatusCode ELSE payload.Status,
             RequestID |-> payload.Request,
             Messages |-> IF Len(payload.Errors) = 0 /\ Len(resp.Body.raw) > 0
                          THEN <<TrimSpace(resp.Body.raw)>>
                          ELSE payload.Errors]

\* an operation that takes only the statuses from 500 on for errors
DecodeResponseServerErrorsOnly(op, resp) ==
    IF resp.StatusCode >= 500 THEN decodeAPIError(resp)
    ELSE IF op = "DeleteMessages" THEN [type |-> "nil"]
    ELSE IF resp.Body.kind # "json" THEN [type |-> "decode"]
    ELSE IF op = "Login" /\ resp.Body.secret = <<>> THEN [type |-> "no secret"]
    ELSE [type |-> "nil"]

\* a Login that takes any decoded response for a success
DecodeResponseSecretUnchecked(op, resp) ==
    IF resp.StatusCode >= 400 THEN decodeAPIError(resp)
    ELSE IF op = "DeleteMessages" THEN [type |-> "nil"]
    ELSE IF resp.Body.kind # "json" THEN [type |-> "decode"]
    ELSE [type |-> "nil"]

\* what an operation returns once c.do has returned a response: the error
\* (type "nil": the operation succeeds)
DecodeResponse(op, resp) ==
    IF resp.StatusCode >= 400 THEN decodeAPIError(resp)
    ELSE IF op = "DeleteMessages" THEN [type |-> "nil"]
    ELSE IF resp.Body.kind # "json" THEN [type |-> "decode"]
    ELSE IF op = "Login" /\ resp.Body.secret = <<>> THEN [type |-> "no secret"]
    ELSE [type |-> "nil"]

\* the observed call before it is made
NoOperation ==
    [pc |-> "idle", op |-> "none", args |-> <<>>, client |-> <<>>,
     dispatched |-> 0, afterCancel |-> 0, waits |-> 0,
     parked |-> FALSE, wake |-> "none", cancelAt |-> "none",
     resp |-> <<>>, errs |-> <<>>, ret |-> "none", result |-> <<>>]

\* the caller holds a slot of the limiter
Holds == gpc[Caller] \in {"inflight", "release"}

\* the caller is parked in a select, no case of which has become ready
Blocked ==
    /\ call.parked
    /\ call.wake = "none"

\* a select without the ctx.Done() case: cancellation wakes nobody
WakeOnCancelIgnored(blocked, wake) == wake

\* a goroutine parked in `select { ...; case <-ctx.Done(): }` is woken by
\* the cancellation; one that is running, or already woken, is not affected
WakeOnCancel(blocked, wake) == IF blocked THEN "done" ELSE wake

\* an operation of the Client is called with its arguments
OpInvoke(op, a) ==
    /\ call.pc = "idle"
    /\ a \in ArgsOf(op)
    /\ call' = [NoOperation EXCEPT !.pc = "precheck", !.op = op, !.args = a]
    /\ UNCHANGED <<tvars, svars, cycle, db, login, handler>>

\* a check of the operation fails: it returns the error
OpPrecheckFail(c) ==
    /\ call.pc = "precheck"
    /\ Precheck(call.op, c, call.args) # ""
    /\ call' = [call EXCEPT !.pc = "done", !.client = c,
                            !.result = [type |-> "precheck",
                                        msg |-> Precheck(call.op, c, call.args)]]
    /\ UNCHANGED <<tvars, svars, cycle, db, login, handler>>

\* the checks pass: the operation encodes its request and enters c.do
OpPrecheckOk(c) ==
    /\ call.pc = "precheck"
    /\ Precheck(call.op, c, call.args) = ""
    /\ Call(Caller, call.op)
    /\ call' = [call EXCEPT !.pc = "do", !.client = c]

\* the caller's ctx is cancelled; a caller parked in a select is woken by
\* ctx.Done() at this moment
OpCancel ==
    /\ call.pc = "do"
    /\ Cancel(Caller)
    /\ call' = [call EXCEPT
                  !.cancelAt = IF Blocked /\ gpc[Caller] = "acquire" THEN "slot"
                               ELSE IF Blocked /\ gpc[Caller] = "retryWait" THEN "delay"
                               ELSE "running",
                  !.wake = WakeOnCancel(Blocked, @)]

DoLoopTop ==
    /\ call.pc = "do"
    /\ LoopTop(Caller)
    /\ UNCHANGED call

\* the select of doOnce finds no case ready: the goroutine parks on the
\* limiter channel and on ctx.Done()
DoPark ==
    /\ call.pc = "do"
    /\ gpc[Caller] = "acquire"
    /\ ~call.parked
    /\ ~CanAcquire(limiter)
    /\ ~cancelled[Caller]
    /\ call' = [call EXCEPT !.parked = TRUE]
    /\ UNCHANGED <<tvars, svars, cycle, db, login, handler>>

\* the send on the limiter goes through (at once, or a slot was handed to
\* the parked caller) and client.Do(req) is called
DoAcquire ==
    /\ call.pc = "do"
    /\ call.parked => call.wake = "slot"
    /\ Acquire(Caller)
    /\ call' = [call EXCEPT !.parked = FALSE, !.wake = "none",
                            !.dispatched = @ + 1,
                            !.afterCancel = IF cancelled[Caller] THEN @ + 1 ELSE @]

\* the select of doOnce takes ctx.Done()
DoAcquireCancelled ==
    /\ call.pc = "do"
    /\ call.parked => call.wake = "done"
    /\ AcquireCancelled(Caller)
    /\ call' = [call EXCEPT !.parked = FALSE, !.wake = "none"]

\* client.Do returns the response of the service
DoRoundTripResponse(resp) ==
    /\ call.pc = "do"
    /\ RoundTripResponse(Caller)
    /\ call' = [call EXCEPT !.resp = resp]

\* client.Do returns an error: the error of this attempt
DoRoundTripError ==
    /\ call.pc = "do"
    /\ RoundTripError(Caller)
    /\ call' = [call EXCEPT !.errs = Append(@, attempt[Caller])]

\* the slot is given back; on a network error without cancellation and with
\* an attempt left the caller enters waitRetry and parks on the timer
DoRelease ==
    /\ call.pc = "do"
    /\ Release(Caller)
    /\ call' = [call EXCEPT !.waits = IF gpc'[Caller] = "retryWait" THEN @ + 1 ELSE @,
                            !.parked = gpc'[Caller] = "retryWait"]

\* the timer of waitRetry wakes the caller
DoRetryTimer ==
    /\ call.pc = "do"
    /\ call.wake # "done"
    /\ RetryTimer(Caller)
    /\ call' = [call EXCEPT !.parked = FALSE, !.wake = "none"]

\* ctx.Done() wakes the caller in waitRetry
DoRetryCancelled ==
    /\ call.pc = "do"
    /\ RetryCancelled(Caller)
    /\ call' = [call EXCEPT !.parked = FALSE, !.wake = "none"]

\* c.do has returned: the operation returns its error, or decodes the
\* response
OpReturn ==
    /\ call.pc = "do"
    /\ Return(Caller)
    /\ call' = [call EXCEPT
                  !.pc = "done",
                  !.ret = gres[Caller],
                  !.result = IF gres[Caller] = "ctxerr" THEN [type |-> "ctx"]
                             ELSE IF gres[Caller] = "neterr"
                             THEN [type |-> "net", attempt |-> call.errs[Len(call.errs)]]
                             ELSE DecodeResponse(call.op, call.resp)]

\* another goroutine's doOnce takes a free slot
OtherAcquire ==
    /\ CanAcquire(limiter)
    /\ call.wake # "slot"
    /\ limiter' = limiter + 1
    /\ UNCHANGED <<gpc, attempt, cancelled, gres, svars, cycle, xvars>>

\* another goroutine's doOnce gives its slot back; a caller parked on the
\* limiter is handed the slot
OtherRelease ==
    /\ limiter - (IF Holds THEN 1 ELSE 0) > 0
    /\ limiter' = limiter - 1
    /\ call' = [call EXCEPT !.wake = IF Blocked /\ gpc[Caller] = "acquire"
                                     THEN "slot" ELSE @]
    /\ UNCHANGED <<gpc, attempt, cancelled, gres, svars, cycle, db, login, handler>>

CNext ==
    \/ \E op \in Ops : \E a \in ArgsOf(op) : OpInvoke(op, a)
    \/ \E c \in ClientConfigs : OpPrecheckFail(c)
    \/ \E c \in ClientConfigs : OpPrecheckOk(c)
    \/ OpCancel
    \/ DoLoopTop
    \/ DoPark
    \/ DoAcquire
    \/ DoAcquireCancelled
    \/ \E resp \in Responses : DoRoundTripResponse(resp)
    \/ DoRoundTripError
    \/ DoRelease
    \/ DoRetryTimer
    \/ DoRetryCancelled
    \/ OpReturn
    \/ OtherAcquire
    \/ OtherRelease

(***************************************************************************)
(* The handlers that send a notification (the send command, the            *)
(* send_notification tool) and that acknowledge up to an id (the mark_read *)
(* tool): what each checks before it calls the Client, the exchanges the   *)
(* Client dispatches for it, and the calls it makes on the Store.          *)
(***************************************************************************)

Handlers == {"runSend", "handleSendNotification", "handleMarkRead"}

\* priorities a flag, a tool input or the configuration can carry
Priorities == {-3, -2, 0, 2, 3}

\* config.Config: the credentials and default_priority
HandlerConfigs ==
    [AppToken : {<<>>, <<" ">>, <<"t">>},
     UserKey : {<<"u">>},
     DeviceID : {<<>>, <<"d">>},
     DeviceSecret : {<<"s">>},
     DefaultPriority : Priorities]

\* the inputs of each handler: the words of the command line and the
\* --priority flag; SendNotificationInput (Priority is a pointer: <<>> when
\* nil, <<p>> when it points to p); MarkReadInput
InputsOf(h) ==
    CASE h = "runSend" ->
            [Message : {<<>>, <<" ">>, <<" ", "m">>}, Priority : Priorities]
      [] h = "handleSendNotification" ->
            [Message : {<<>>, <<" ">>, <<" ", "m">>},
             Priority : {<<>>} \cup {<<p>> : p \in Priorities}]
      [] h = "handleMarkRead" -> [MessageID : {-1, 0, 1}]

\* Config.ValidateSend: "" stands for nil
ValidateSend(c) ==
    IF c.AppToken = <<>> THEN "app token is missing"
    ELSE IF c.UserKey = <<>> THEN "user key is missing"
    ELSE ""

\* Config.ValidateReceive
ValidateReceive(c) ==
    IF ValidateSend(c) # "" THEN ValidateSend(c)
    ELSE IF c.DeviceID = <<>> \/ c.DeviceSecret = <<>>
    THEN "device credentials missing, run 'push login'"
    ELSE ""

\* the priority a handler sends with: the flag, or the input's priority and
\* the configured default when the input has none
PriorityOf(h, c, in) ==
    IF h = "handleSendNotification"
    THEN (IF in.Priority = <<>> THEN c.DefaultPriority ELSE in.Priority[1])
    ELSE in.Priority

\* a range check that leaves the configured default unchecked
PriorityErrorInputOnly(h, c, in) ==
    IF h = "handleSendNotification" /\ in.Priority = <<>> THEN ""
    ELSE IF PriorityOf(h, c, in) < -2 \/ PriorityOf(h, c, in) > 2
    THEN "priority must be between -2 and 2"
    ELSE ""

\* `if priority < -2 || priority > 2`
PriorityError(h, c, in) ==
    IF PriorityOf(h, c, in) < -2 \/ PriorityOf(h, c, in) > 2
    THEN "priority must be between -2 and 2"
    ELSE ""

\* the checks of a handler before it builds its Client, in their order: the
\* error it returns, "" when it goes on
Validate(h, c, in) ==
    CASE h = "runSend" ->
            IF ValidateSend(c) # "" THEN ValidateSend(c)
            ELSE IF TrimSpace(in.Message) = <<>> THEN "message cannot be empty"
            ELSE PriorityError(h, c, in)
      [] h = "handleSendNotification" ->
            IF ValidateSend(c) # "" THEN ValidateSend(c)
            ELSE IF TrimSpace(in.Message) = <<>> THEN "message is required"
            ELSE PriorityError(h, c, in)
      [] h = "handleMarkRead" ->
            IF ValidateReceive(c) # "" THEN ValidateReceive(c)
            ELSE IF in.MessageID <= 0 THEN "message_id must be positive"
            ELSE ""

\* the operation of the Client a handler calls and its arguments: runSend
\* sends the trimmed message, the tool the message as given
OperationOf(h) == IF h = "handleMarkRead" THEN "DeleteMessages" ELSE "Send"

ArgumentsOf(h, c, in) ==
    CASE h = "runSend" ->
            [Message |-> TrimSpace(in.Message), Priority |-> PriorityOf(h, c, in)]
      [] h = "handleSendNotification" ->
            [Message |-> in.Message, Priority |-> PriorityOf(h, c, in)]
      [] h = "handleMarkRead" -> [UpToID |-> in.MessageID]

\* newClientFromConfig / Server.newClient: the Client of the configuration
ClientOf(c) ==
    [AppToken |-> c.AppToken, UserKey |-> c.UserKey,
     DeviceID |-> c.DeviceID, DeviceSecret |-> c.DeviceSecret]

\* no handler is running
\* db.SentRecord of the handler's send: the message and priority sent and
\* the request id of the response
SentRecordOf(h) ==
    [Message |-> h.args.Message, Priority |-> h.args.Priority,
     RequestID |-> h.requestID]

\* a handler that returns the error of the logging
AfterLogSentFatal(name, err) == [err |-> err, warning |-> ""]

\* what a send handler makes of the error of logSentMessage / LogSent (""
\* stands for nil): a warning beside the result of the send
AfterLogSent(name, err) ==
    [err |-> "",
     warning |-> IF err = "" THEN ""
                 ELSE IF name = "runSend" THEN "unable to log sent message"
                 ELSE "failed to log history"]

\* sent0 is the sent table the handler found
NoHandler ==
    [pc |-> "idle", name |-> "none", cfg |-> <<>>, input |-> <<>>, args |-> <<>>,
     network |-> 0, storage |-> <<>>, requestID |-> <<>>, logged |-> FALSE,
     sent0 |-> <<>>, err |-> "", warning |-> ""]

\* a handler is entered with its configuration and its input
HandlerInvoke(h, c, in) ==
    /\ handler.pc = "idle"
    /\ in \in InputsOf(h)
    /\ Len(db.sent) < MaxSent
    /\ handler' = [NoHandler EXCEPT !.pc = "validate", !.name = h, !.cfg = c,
                                    !.input = in, !.sent0 = db.sent]
    /\ UNCHANGED <<tvars, svars, cycle, db, call, login>>

\* a check of the handler fails: it returns the error
HandlerReject ==
    /\ handler.pc = "validate"
    /\ Validate(handler.name, handler.cfg, handler.input) # ""
    /\ handler' = [handler EXCEPT
                     !.pc = "done",
                     !.err = Validate(handler.name, handler.cfg, handler.input)]
    /\ UNCHANGED <<tvars, svars, cycle, db, call, login>>

\* the checks pass: the handler builds its Client and calls the operation
HandlerCallClient ==
    /\ handler.pc = "validate"
    /\ Validate(handler.name, handler.cfg, handler.input) = ""
    /\ handler' = [handler EXCEPT
                     !.pc = "operation",
                     !.args = ArgumentsOf(handler.name, handler.cfg, handler.input)]
    /\ UNCHANGED <<tvars, svars, cycle, db, call, login>>

\* the operation's own checks fail (a credential of white space passes the
\* Validate of the configuration and fails here)
ClientReject ==
    /\ handler.pc = "operation"
    /\ handler.network = 0
    /\ Precheck(OperationOf(handler.name), ClientOf(handler.cfg), handler.args) # ""
    /\ handler' = [handler EXCEPT
                     !.pc = "done",
                     !.err = Precheck(OperationOf(handler.name), ClientOf(handler.cfg),
                                      handler.args)]
    /\ UNCHANGED <<tvars, svars, cycle, db, call, login>>

\* c.do dispatches an exchange: it fails at network level and another
\* attempt is left, or do returns
ClientExchange(outcome) ==
    /\ handler.pc = "operation"
    /\ Precheck(OperationOf(handler.name), ClientOf(handler.cfg), handler.args) = ""
    /\ handler.network < Attempts(defaultRequestAttempts)
    /\ handler' =
          [handler EXCEPT
             !.network = @ + 1,
             !.requestID = IF outcome = "ok" THEN <<"r">> ELSE @,
             !.pc = IF outcome = "ok"
                    THEN (IF handler.name = "runSend" THEN "openStore"
                          ELSE IF handler.name = "handleSendNotification" THEN "LogSent"
                          ELSE "done")
                    ELSE IF outcome = "neterr"
                            /\ handler.network + 1 < Attempts(defaultRequestAttempts)
                    THEN "operation"
                    ELSE "done",
             !.err = IF outcome = "ok" THEN ""
                     ELSE IF outcome = "neterr"
                             /\ handler.network + 1 < Attempts(defaultRequestAttempts)
                     THEN ""
                     ELSE outcome]
    /\ UNCHANGED <<tvars, svars, cycle, db, call, login>>

\* logSentMessage of the send command opens the Store; a failure is a
\* warning
HandlerOpenStore(ok) ==
    /\ handler.pc = "openStore"
    /\ LET after == AfterLogSent(handler.name, IF ok THEN "" ELSE "open database")
       IN handler' = [handler EXCEPT
                        !.storage = Append(@, "openStore"),
                        !.pc = IF ok THEN "LogSent" ELSE "done",
                        !.err = after.err,
                        !.warning = after.warning]
    /\ UNCHANGED <<tvars, svars, cycle, db, call, login>>

\* Store.LogSent on the Store just opened (the command) or on the Store of
\* the server (the tool); a failure is a warning
HandlerLogSent(ok) ==
    /\ handler.pc = "LogSent"
    /\ LET err == LogSentResult("open", ok)
       IN /\ db' = [db EXCEPT !.sent = IF err = ""
                                       THEN AppendSent(@, SentRecordOf(handler))
                                       ELSE @]
          /\ handler' = [handler EXCEPT
                           !.storage = Append(@, "LogSent"),
                           !.pc = "done",
                           !.logged = err = "",
                           !.err = AfterLogSent(handler.name, err).err,
                           !.warning = AfterLogSent(handler.name, err).warning]
    /\ UNCHANGED <<tvars, svars, cycle, call, login>>

\* the handler has returned; the next request comes
HandlerReturn ==
    /\ handler.pc = "done"
    /\ handler' = NoHandler
    /\ UNCHANGED <<tvars, svars, cycle, db, call, login>>

RNext ==
    \/ \E h \in Handlers, c \in HandlerConfigs : \E in \in InputsOf(h) :
          HandlerInvoke(h, c, in)
    \/ HandlerReject
    \/ HandlerCallClient
    \/ ClientReject
    \/ \E outcome \in {"ok", "neterr", "apierr"} : ClientExchange(outcome)
    \/ \E ok \in BOOLEAN : HandlerOpenStore(ok)
    \/ \E ok \in BOOLEAN : HandlerLogSent(ok)
    \/ HandlerReturn

(***************************************************************************)
(* The login command: runLogin and performLogin (internal/cli/login.go)    *)
(* over the prompter and Client.Login / Client.RegisterDevice.  trace is   *)
(* the path of the handshake through its states.                           *)
(***************************************************************************)

\* lines a user types at a prompt
Typed == {<<>>, <<" ">>, <<"e", " ">>}

\* values of the --device-name flag ("push-cli" unless given)
DeviceNames == {<<>>, <<"n">>}

\* prompter.Ask: the trimmed line, the default when nothing is left
Ask(text, defaultValue) ==
    IF TrimSpace(text) = <<>> THEN defaultValue ELSE TrimSpace(text)

\* prompter.AskSecret: the trimmed line
AskSecret(text) == TrimSpace(text)

\* what the service can answer to an exchange, and the exchange that fails at
\* network level on every attempt
NetworkFailure == [StatusCode |-> 0, Body |-> [kind |-> "empty", raw |-> <<>>]]

Replies == Responses \cup {NetworkFailure}

\* the error of an operation whose call of c.do ended with reply r
ErrorOf(op, r) ==
    IF r = NetworkFailure THEN [type |-> "net"] ELSE DecodeResponse(op, r)

\* DeviceRegistration as decoded from the response
Registrations == [ID : {<<>>, <<"i">>}, Name : {<<>>, <<"n">>}, Secret : {<<>>, <<"v">>}]

\* the device credentials of the configuration runLogin loads: none, or
\* those of an earlier login
LoadedConfigs ==
    {[DeviceID |-> <<>>, DeviceSecret |-> <<>>],
     [DeviceID |-> <<"o">>, DeviceSecret |-> <<"w">>]}

\* a performLogin that asks for a code after any error
IsTwoFactorAnyError(err) == err.type # "nil"

\* errors.Is(err, pushover.ErrTwoFactorRequired)
IsTwoFactor(err) == err.type = "ErrTwoFactorRequired"

\* the device id runLogin stores: the id of the registration, its name when
\* the id is empty, the configured id when both are
DeviceIDOf(reg, old) ==
    IF reg.ID # <<>> THEN reg.ID
    ELSE IF reg.Name # <<>> THEN reg.Name
    ELSE old

\* a login that stores the secret of the registration
DeviceSecretOfRegistration(secret, reg) == reg.Secret

\* the device secret runLogin stores: `cfg.DeviceSecret = loginResp.Secret`
DeviceSecretOf(secret, reg) == secret

\* loaded is the configuration read at the start, cfg the copy runLogin
\* changes, stored the configuration file
LoginIdle ==
    [pc |-> "idle", typed |-> <<>>, email |-> <<>>, password |-> <<>>,
     deviceName |-> <<>>, code |-> <<>>, logins |-> <<>>, results |-> <<>>,
     replies |-> <<>>, registers |-> <<>>, registration |-> <<>>,
     secret |-> <<>>, loaded |-> <<>>, cfg |-> <<>>, stored |-> <<>>,
     saved |-> FALSE, err |-> "", trace |-> <<>>]

\* runLogin loads the configuration, reads the email and the password from
\* the prompter and enters performLogin
LoginStart(email, password, name, old) ==
    /\ login.pc = "idle"
    /\ login' = [LoginIdle EXCEPT
                   !.pc = "login",
                   !.loaded = old,
                   !.cfg = old,
                   !.stored = old,
                   !.typed = [Email |-> email, Password |-> password, Code |-> <<>>],
                   !.email = Ask(email, <<>>),
                   !.password = AskSecret(password),
                   !.deviceName = name,
                   !.trace = <<"Start">>]
    /\ UNCHANGED <<tvars, svars, cycle, db, call, handler>>

\* a prompt of runLogin fails to read its line
LoginStartFail ==
    /\ login.pc = "idle"
    /\ login' = [LoginIdle EXCEPT !.pc = "done", !.err = "prompt",
                                  !.trace = <<"Start", "Failed">>]
    /\ UNCHANGED <<tvars, svars, cycle, db, call, handler>>

\* client.Login returns from its check of email and password
LoginRejected ==
    /\ login.pc = "login"
    /\ Precheck("Login", <<>>, [Email |-> login.email, Password |-> login.password]) # ""
    /\ login' = [login EXCEPT
                   !.pc = "done",
                   !.logins = Append(@, [Email |-> login.email,
                                         Password |-> login.password,
                                         Code |-> login.code,
                                         dispatched |-> FALSE]),
                   !.err = "precheck",
                   !.trace = Append(@, "Failed")]
    /\ UNCHANGED <<tvars, svars, cycle, db, call, handler>>

\* client.Login passes its check and hands its request to c.do
LoginSubmit ==
    /\ login.pc = "login"
    /\ Precheck("Login", <<>>, [Email |-> login.email, Password |-> login.password]) = ""
    /\ login' = [login EXCEPT
                   !.pc = "submitted",
                   !.logins = Append(@, [Email |-> login.email,
                                         Password |-> login.password,
                                         Code |-> login.code,
                                         dispatched |-> TRUE]),
                   !.trace = Append(@, IF Len(login.logins) = 0
                                       THEN "LoginSubmitted"
                                       ELSE "LoginRetriedWithCode")]
    /\ UNCHANGED <<tvars, svars, cycle, db, call, handler>>

\* client.Login returns: the secret, the two-factor error to the first call
\* of performLogin (which then prompts), or an error that runLogin returns
LoginReturn(r) ==
    /\ login.pc = "submitted"
    /\ LET err == ErrorOf("Login", r)
       IN login' =
            IF err.type = "nil"
            THEN [login EXCEPT !.pc = "register", !.secret = r.Body.secret,
                               !.replies = Append(@, r),
                               !.results = Append(@, err.type),
                               !.trace = Append(@, "LoginSucceeded")]
            ELSE IF Len(login.logins) = 1 /\ IsTwoFactor(err)
            THEN [login EXCEPT !.pc = "prompt",
                               !.replies = Append(@, r),
                               !.results = Append(@, err.type),
                               !.trace = Append(@, "TwoFactorChallenged")]
            ELSE [login EXCEPT !.pc = "done", !.err = err.type,
                               !.replies = Append(@, r),
                               !.results = Append(@, err.type),
                               !.trace = Append(@, "Failed")]
    /\ UNCHANGED <<tvars, svars, cycle, db, call, handler>>

\* performLogin reads the code and calls client.Login with it
LoginPromptCode(code) ==
    /\ login.pc = "prompt"
    /\ login' = [login EXCEPT !.pc = "login", !.typed.Code = code,
                              !.code = Ask(code, <<>>)]
    /\ UNCHANGED <<tvars, svars, cycle, db, call, handler>>

\* the prompt for the code fails to read its line
LoginPromptCodeFail ==
    /\ login.pc = "prompt"
    /\ login' = [login EXCEPT !.pc = "done", !.err = "prompt",
                              !.trace = Append(@, "Failed")]
    /\ UNCHANGED <<tvars, svars, cycle, db, call, handler>>

\* a login command that goes on to save after a failed registration
AfterRegisterErrorSave == "save"

\* `if err != nil { return err }` after client.RegisterDevice
AfterRegisterError == "done"

\* client.RegisterDevice(ctx, loginResp.Secret, deviceName): its checks, its
\* exchange and what runLogin does with the result up to config.Save
LoginRegister(r, reg) ==
    /\ login.pc = "register"
    /\ LET a == [Secret |-> login.secret, Name |-> login.deviceName]
           rejected == Precheck("RegisterDevice", <<>>, a) # ""
           err == IF rejected THEN [type |-> "precheck"]
                  ELSE ErrorOf("RegisterDevice", r)
       IN login' =
            IF err.type = "nil"
            THEN [login EXCEPT
                    !.pc = "save",
                    !.registers = Append(@, [Secret |-> a.Secret, Name |-> a.Name,
                                             dispatched |-> TRUE]),
                    !.registration = reg,
                    !.cfg = [DeviceID |-> DeviceIDOf(reg, login.cfg.DeviceID),
                             DeviceSecret |-> DeviceSecretOf(login.secret, reg)],
                    !.trace = Append(@, "DeviceRegistered")]
            ELSE [login EXCEPT
                    !.pc = AfterRegisterError,
                    !.registers = Append(@, [Secret |-> a.Secret, Name |-> a.Name,
                                             dispatched |-> ~rejected]),
                    !.err = err.type,
                    !.trace = Append(@, "Failed")]
    /\ UNCHANGED <<tvars, svars, cycle, db, call, handler>>

\* config.Save(cfgPath, cfg)
LoginSave(ok) ==
    /\ login.pc = "save"
    /\ login' = [login EXCEPT !.pc = "done", !.saved = ok,
                              !.stored = IF ok THEN login.cfg ELSE @,
                              !.err = IF ok THEN "" ELSE "save"]
    /\ UNCHANGED <<tvars, svars, cycle, db, call, handler>>

LNext ==
    \/ \E email \in Typed, password \in Typed, name \in DeviceNames,
          old \in LoadedConfigs :
          LoginStart(email, password, name, old)
    \/ LoginStartFail
    \/ LoginRejected
    \/ LoginSubmit
    \/ \E r \in Replies : LoginReturn(r)
    \/ \E code \in Typed : LoginPromptCode(code)
    \/ LoginPromptCodeFail
    \/ \E r \in Replies, reg \in Registrations : LoginRegister(r, reg)
    \/ \E ok \in BOOLEAN : LoginSave(ok)

(***************************************************************************)
(* The logout command: runLogout (internal/cli) over config.Load and       *)
(* config.Save. Under SpecLogout the variable login holds the run of the   *)
(* command and the configuration file.                                     *)
(***************************************************************************)

\* the zero Config: `&Config{}`
ZeroConfig ==
    [AppToken |-> "", UserKey |-> "", DeviceID |-> "", DeviceSecret |-> "",
     DefaultDevice |-> "", DefaultPriority |-> 0]

\* config.Config values
Configs ==
    [AppToken : {"", "t"}, UserKey : {"", "u"}, DeviceID : {"", "d"},
     DeviceSecret : {"", "s"}, DefaultDevice : {"", "n"}, DefaultPriority : {0, 1}]

\* the file at the configuration path: absent, or the six keys of a Config
\* and, possibly, text that is no key of Config (a comment, another key)
NoFile == [exists |-> FALSE]
ConfigFiles ==
    {NoFile} \cup {[exists |-> TRUE, keys |-> c, other |-> o] :
                      c \in Configs, o \in BOOLEAN}

\* config.Load: a missing file gives the zero Config, toml.Unmarshal reads
\* the six keys and skips everything else
Load(file) == IF file.exists THEN file.keys ELSE ZeroConfig

\* config.Save: toml.Marshal writes the six keys, the rename replaces the
\* file
Save(cfg) == [exists |-> TRUE, keys |-> cfg, other |-> FALSE]

\* a logout that empties the whole configuration
ClearConfig(cfg) == ZeroConfig

\* `cfg.DeviceID = ""; cfg.DeviceSecret = ""`
ClearDevice(cfg) == [cfg EXCEPT !.DeviceID = "", !.DeviceSecret = ""]

\* `cfg.DeviceID == "" && cfg.DeviceSecret == ""`
NoDeviceCredentials(cfg) == cfg.DeviceID = "" /\ cfg.DeviceSecret = ""

LogoutIdle(file) ==
    [pc |-> "idle", file |-> file, file0 |-> file, cfg |-> ZeroConfig,
     saves |-> 0, err |-> "", printed |-> ""]

LogoutInit == login \in {LogoutIdle(file) : file \in ConfigFiles}

\* loadConfig() returns the configuration
LogoutLoad ==
    /\ login.pc = "idle"
    /\ login' = [login EXCEPT !.pc = "loaded", !.cfg = Load(login.file)]
    /\ UNCHANGED <<tvars, svars, cycle, db, call, handler>>

\* loadConfig() fails (the file cannot be read or parsed): `return err`
LogoutLoadFail ==
    /\ login.pc = "idle"
    /\ login.file.exists
    /\ login' = [login EXCEPT !.pc = "done", !.err = "reading config"]
    /\ UNCHANGED <<tvars, svars, cycle, db, call, handler>>

\* no device credentials: the command prints and returns nil
LogoutNothing ==
    /\ login.pc = "loaded"
    /\ NoDeviceCredentials(login.cfg)
    /\ login' = [login EXCEPT !.pc = "done",
                              !.printed = "No device credentials were stored."]
    /\ UNCHANGED <<tvars, svars, cycle, db, call, handler>>

\* the two fields are cleared and config.Save is called: it replaces the
\* file, or fails and leaves it
LogoutSave(ok) ==
    /\ login.pc = "loaded"
    /\ ~NoDeviceCredentials(login.cfg)
    /\ login' = [login EXCEPT
                    !.pc = "done",
                    !.cfg = ClearDevice(login.cfg),
                    !.saves = @ + 1,
                    !.file = IF ok THEN Save(ClearDevice(login.cfg)) ELSE @,
                    !.err = IF ok THEN "" ELSE "saving config",
                    !.printed = IF ok THEN "Device credentials removed." ELSE ""]
    /\ UNCHANGED <<tvars, svars, cycle, db, call, handler>>

\* the steps of the logout command
ONext ==
    \/ LogoutLoad
    \/ LogoutLoadFail
    \/ LogoutNothing
    \/ \E ok \in BOOLEAN : LogoutSave(ok)

(***************************************************************************)
(* The MCP server (internal/mcp): tool invocations and resource reads      *)
(* served side by side, each through the Client its handler builds. Under  *)
(* SpecServer limiter[g] is the limiter of the Client of invocation g and  *)
(* call[g] is the handler that runs it.                                    *)
(***************************************************************************)

\* the handlers that call the remote service, with the Client operations
\* each makes in order
ServerHandlers ==
    [name : {"send_notification"}, ops : {<<"Send">>}]
    \cup [name : {"check_messages"}, ops : {<<"FetchMessages", "DeleteMessages">>}]
    \cup [name : {"mark_read"}, ops : {<<"DeleteMessages">>}]
    \cup [name : {"push://unread"}, ops : {<<"FetchMessages">>}]

NoInvocation == [name |-> "none", ops |-> <<>>]

ServerInit ==
    /\ limiter = [g \in Procs |-> 0]
    /\ gpc = [g \in Procs |-> "idle"]
    /\ attempt = [g \in Procs |-> 0]
    /\ cancelled = [g \in Procs |-> FALSE]
    /\ gres = [g \in Procs |-> "none"]
    /\ call = [g \in Procs |-> NoInvocation]

\* a request arrives and its handler runs: `client := s.newClient()` builds
\* a Client, NewClient makes its limiter (an empty channel of capacity
\* maxConcurrentRequests), and the first operation reaches doOnce
Invoke(g, h) ==
    /\ gpc[g] = "idle"
    /\ call' = [call EXCEPT ![g] = h]
    /\ limiter' = [limiter EXCEPT ![g] = 0]
    /\ gpc' = [gpc EXCEPT ![g] = "acquire"]
    /\ attempt' = [attempt EXCEPT ![g] = 1]
    /\ gres' = [gres EXCEPT ![g] = "none"]
    /\ UNCHANGED cancelled
    /\ UNCHANGED <<svars, cycle, db, login, handler>>

\* doOnce: the select takes a slot of the limiter of the handler's Client
ServeAcquire(g) ==
    /\ gpc[g] = "acquire"
    /\ CanAcquire(limiter[g])
    /\ limiter' = [limiter EXCEPT ![g] = @ + 1]
    /\ gpc' = [gpc EXCEPT ![g] = "inflight"]
    /\ UNCHANGED <<attempt, cancelled, gres, call>>
    /\ UNCHANGED <<svars, cycle, db, login, handler>>

\* client.Do(req) returns a response or an error
ServeRoundTrip(g, res) ==
    /\ gpc[g] = "inflight"
    /\ gpc' = [gpc EXCEPT ![g] = "release"]
    /\ gres' = [gres EXCEPT ![g] = res]
    /\ UNCHANGED <<limiter, attempt, cancelled, call>>
    /\ UNCHANGED <<svars, cycle, db, login, handler>>

\* doOnce's deferred `<-limiter`, then the rest of the loop body of do: a
\* retry after an error while attempts are left, else the operation returns
ServeRelease(g) ==
    /\ gpc[g] = "release"
    /\ limiter' = [limiter EXCEPT ![g] = Drain(@, gres[g])]
    /\ IF gres[g] = "neterr" /\ attempt[g] < Attempts(defaultRequestAttempts)
       THEN /\ gpc' = [gpc EXCEPT ![g] = "acquire"]
            /\ attempt' = [attempt EXCEPT ![g] = @ + 1]
       ELSE /\ gpc' = [gpc EXCEPT ![g] = "returned"]
            /\ UNCHANGED attempt
    /\ UNCHANGED <<cancelled, gres, call>>
    /\ UNCHANGED <<svars, cycle, db, login, handler>>

\* the operation has returned a response and the handler has another one to
\* make (check_messages: DeleteMessages after FetchMessages), on the same
\* Client
ServeNextOperation(g) ==
    /\ gpc[g] = "returned"
    /\ gres[g] = "resp"
    /\ Len(call[g].ops) > 1
    /\ call' = [call EXCEPT ![g].ops = Tail(@)]
    /\ gpc' = [gpc EXCEPT ![g] = "acquire"]
    /\ attempt' = [attempt EXCEPT ![g] = 1]
    /\ gres' = [gres EXCEPT ![g] = "none"]
    /\ UNCHANGED <<limiter, cancelled>>
    /\ UNCHANGED <<svars, cycle, db, login, handler>>

\* the handler returns its result or its error; its Client is dropped
ServeReturn(g) ==
    /\ gpc[g] = "returned"
    /\ gres[g] # "resp" \/ Len(call[g].ops) = 1
    /\ call' = [call EXCEPT ![g] = NoInvocation]
    /\ gpc' = [gpc EXCEPT ![g] = "idle"]
    /\ attempt' = [attempt EXCEPT ![g] = 0]
    /\ gres' = [gres EXCEPT ![g] = "none"]
    /\ UNCHANGED <<limiter, cancelled>>
    /\ UNCHANGED <<svars, cycle, db, login, handler>>

\* the steps of the requests the server is serving
VNext ==
    \E g \in Procs :
        \/ \E h \in ServerHandlers : Invoke(g, h)
        \/ ServeAcquire(g)
        \/ \E res \in {"resp", "neterr"} : ServeRoundTrip(g, res)
        \/ ServeRelease(g)
        \/ ServeNextOperation(g)
        \/ ServeReturn(g)

(***************************************************************************)
(* Specifications.                                                         *)
(***************************************************************************)

Init ==
    /\ TransportInit
    /\ StoreInit
    /\ CycleInit
    /\ StoreCallInit
    /\ call = NoOperation
    /\ login = LoginIdle
    /\ handler = NoHandler

TNext ==
    \E g \in Procs :
        \/ (\E op \in Ops : Call(g, op)) /\ UNCHANGED call
        \/ Cancel(g) /\ UNCHANGED call
        \/ LoopTop(g) /\ UNCHANGED call
        \/ Acquire(g) /\ UNCHANGED call
        \/ AcquireCancelled(g) /\ UNCHANGED call
        \/ RoundTripResponse(g) /\ UNCHANGED call
        \/ RoundTripError(g) /\ UNCHANGED call
        \/ Release(g) /\ UNCHANGED call
        \/ RetryTimer(g) /\ UNCHANGED call
        \/ RetryCancelled(g) /\ UNCHANGED call
        \/ Return(g) /\ UNCHANGED call

Next == CycleNext \/ PersistNext

\* the writer does not move between a reader's SELECT and its return: the
\* rows read are judged against the state they were read in
SNext ==
    \/ q = NoQuery /\ PersistEmpty
    \/ q = NoQuery /\ \E d \in {0, 1} : PersistBegin(d)
    \/ q = NoQuery /\ \E err \in {"begin tx", "prepare insert"} : PersistBeginFail(err)
    \/ q = NoQuery /\ PersistExec
    \/ q = NoQuery /\ PersistExecFail
    \/ q = NoQuery /\ PersistCommit
    \/ q = NoQuery /\ PersistCommitFail
    \/ q = NoQuery /\ \E msgs \in MessageLists : Reingest(msgs)
    \/ \E limit \in QueryLimits, since \in Sinces : Query(limit, since)
    \/ QueryReturn

\* goroutines on one Client
SpecTransport == Init /\ [][TNext]_vars

\* one invocation of the messages command or of the check_messages tool
Spec == Init /\ [][Next]_vars

\* a message list ingested and ingested again, beside a concurrent reader
SpecStore == Init /\ [][SNext]_vars

\* one Store value from before Open to after Close
SpecHandle == Init /\ [][HNext]_vars

\* history queries on a store that holds rows
SpecQuery == QInit /\ [][QNext]_vars

\* one call of a Client operation beside other callers of the Client
SpecCall == Init /\ [][CNext]_vars

SpecSend == Init /\ [][RNext]_vars

SpecLogin == Init /\ [][LNext]_vars

\* the requests one MCP server process serves side by side
VInit ==
    /\ ServerInit
    /\ StoreInit
    /\ CycleInit
    /\ StoreCallInit
    /\ login = LoginIdle
    /\ handler = NoHandler

SpecServer == VInit /\ [][VNext]_vars

\* one run of the logout command on the configuration file it finds
OInit ==
    /\ TransportInit
    /\ StoreInit
    /\ CycleInit
    /\ StoreCallInit
    /\ call = NoOperation
    /\ handler = NoHandler
    /\ LogoutInit

SpecLogout == OInit /\ [][ONext]_vars

\* a step of the observed call: the scheduler runs a runnable goroutine,
\* client.Do returns within the http.Client's Timeout and the timer of
\* waitRetry fires
CallerStep ==
    \/ \E c \in ClientConfigs : OpPrecheckFail(c)
    \/ \E c \in ClientConfigs : OpPrecheckOk(c)
    \/ DoLoopTop
    \/ DoPark
    \/ DoAcquire
    \/ DoAcquireCancelled
    \/ \E resp \in Responses : DoRoundTripResponse(resp)
    \/ DoRoundTripError
    \/ DoRelease
    \/ DoRetryTimer
    \/ DoRetryCancelled
    \/ OpReturn

\* the same, where the call keeps running and the exchanges of the other
\* callers end
SpecCallLive ==
    Init /\ [][CNext]_vars /\ WF_vars(CallerStep) /\ WF_vars(OtherRelease)

(***************************************************************************)
(* Properties.                                                             *)
(***************************************************************************)

\* the fetched list and the explicit cursor of the cycle
Msgs == cycle.result.Messages
Explicit == cycle.result.LastMessageID

\* the maximum remote identity among the messages (0 for no message)
MaxIdentity(msgs) ==
    IF Len(msgs) = 0 THEN 0 ELSE Max({msgs[i].PushoverID : i \in 1..Len(msgs)})

Max2(a, b) == IF a >= b THEN a ELSE b

\* the cycle is past its acknowledgment step
PastAck == cycle.pc \in {"output", "done"}

\* every fetched message the acknowledgment id covers has a row in the store
CoveredRecorded(id) ==
    \A i \in 1..Len(Msgs) :
        Msgs[i].PushoverID <= id => \E r \in table : r.PushoverID = Msgs[i].PushoverID

\* the index of the latest occurrence of a remote identity in the list
LatestIndex(msgs, id) == Max({i \in 1..Len(msgs) : msgs[i].PushoverID = id})

\* C1: at every moment at most 2 HTTP exchanges of the Client are in flight,
\* however many goroutines call its operations.
C1_AtMostTwoInFlight == Cardinality(InFlight) <= 2

\* two exchanges in flight while a third goroutine waits for a slot
C1_Witness ==
    /\ Cardinality(InFlight) = 2
    /\ \E g \in Procs : gpc[g] = "acquire" /\ ~cancelled[g]

\* C2 (as claimed): whenever an acknowledgment has been sent, every fetched
\* message it covers is recorded in the store.
C2_AckOnlyAfterRecorded ==
    \A k \in 1..Len(cycle.acks) : CoveredRecorded(cycle.acks[k])

\* C2 (amended): an acknowledgment is sent only after the persistence attempt
\* of the cycle has returned, and when that attempt succeeded every fetched
\* message is recorded in the store when the acknowledgment is sent; a failed
\* attempt does not hold the acknowledgment back.
C2_AckAfterPersistAttempt ==
    cycle.acks # <<>> =>
        /\ cycle.persistDone
        /\ cycle.persistCalls = 1
        /\ ~tx.active
        /\ cycle.persistErr = "" =>
              \A i \in 1..Len(Msgs) : \E r \in table : r.PushoverID = Msgs[i].PushoverID

\* an acknowledgment sent after two fetched messages were committed
C2_Witness ==
    /\ cycle.acks # <<>>
    /\ cycle.persistErr = ""
    /\ Len(Msgs) = 2
    /\ cycle.persisted = 2

\* C3 (as claimed): the cursor of the cycle is max(explicit cursor, maximum
\* fetched identity).
C3_CursorIsMax ==
    PastAck => cycle.ackedID = Max2(Explicit, MaxIdentity(Msgs))

\* C3 (amended): the cursor is max(explicit cursor, maximum fetched identity)
\* when the explicit cursor is 0 or at least the maximum fetched identity; a
\* positive explicit cursor below the maximum fetched identity is itself the
\* cursor.
C3_CursorIsMaxUnlessLowerExplicit ==
    PastAck =>
        /\ (Explicit = 0 \/ Explicit >= MaxIdentity(Msgs)) =>
              cycle.ackedID = Max2(Explicit, MaxIdentity(Msgs))
        /\ (Explicit > 0 /\ Explicit < MaxIdentity(Msgs)) =>
              /\ cycle.ackedID = Explicit
              /\ cycle.ackedID < MaxIdentity(Msgs)

\* a cycle whose explicit cursor is positive and below a fetched identity
C3_Witness ==
    /\ PastAck
    /\ Explicit > 0
    /\ Explicit < MaxIdentity(Msgs)
    /\ cycle.acks = <<Explicit>>

\* C4: the cursor is the explicit cursor when that is positive and otherwise
\* the maximum fetched identity; with explicit cursor 0 and a non-empty list
\* it is the maximum identity of the list.
C4_CursorPrefersExplicit ==
    PastAck =>
        /\ cycle.ackedID = IF Explicit > 0 THEN Explicit ELSE MaxIdentity(Msgs)
        /\ (Explicit = 0 /\ Len(Msgs) > 0) =>
              /\ cycle.ackedID = MaxIdentity(Msgs)
              /\ \A i \in 1..Len(Msgs) : Msgs[i].PushoverID <= cycle.ackedID
              /\ \A k \in 1..Len(cycle.acks) : cycle.acks[k] = MaxIdentity(Msgs)

\* two messages, the higher identity first, and no explicit cursor: the
\* acknowledgment targets the higher identity
C4_Witness ==
    /\ PastAck
    /\ Explicit = 0
    /\ Len(Msgs) = 2
    /\ Msgs[1].PushoverID = 2
    /\ Msgs[2].PushoverID = 1
    /\ cycle.acks = <<2>>

\* C5: a fetch result with no message and explicit cursor 0 leads to no
\* acknowledge call.
C5_NoAckForEmptyFetch ==
    (cycle.fetched /\ Len(Msgs) = 0 /\ Explicit = 0) => cycle.acks = <<>>

\* a finished cycle whose fetch returned no message and no cursor
C5_Witness ==
    /\ cycle.pc = "done"
    /\ cycle.fetched
    /\ Len(Msgs) = 0
    /\ Explicit = 0

\* C6: a failed fetch ends the cycle with an error, with no persistence
\* attempt, no acknowledge call and the store as it was.
C6_FetchFailureNoSideEffects ==
    cycle.fetchErr =>
        /\ cycle.pc = "failed"
        /\ cycle.retErr # ""
        /\ cycle.persistCalls = 0
        /\ ~tx.active
        /\ cycle.acks = <<>>
        /\ table = cycle.startTable

\* a fetch that fails in a cycle started on a store that holds rows
C6_Witness ==
    /\ cycle.fetchErr
    /\ cycle.pc = "failed"
    /\ cycle.startTable # {}

\* C7: when the fetch succeeds and persisting fails, the cycle does not fail,
\* the fetched messages are returned (up to the limit), the acknowledgment is
\* issued when the cursor is positive, and a persistence warning is reported.
C7_PersistFailureNonFatal ==
    cycle.persistErr # "" =>
        /\ cycle.pc \in {"ack", "output", "done"}
        /\ cycle.retErr = ""
        /\ PastAck =>
              IF AckCursor(cycle.kind, cycle.result) > 0
              THEN cycle.acks = <<AckCursor(cycle.kind, cycle.result)>>
              ELSE cycle.acks = <<>>
        /\ cycle.pc = "done" =>
              /\ Len(cycle.output) = 1
              /\ cycle.output[1].Warning # ""
              /\ cycle.output[1].Count = Len(Msgs)
              /\ cycle.output[1].Messages
                    = SubSeq(Msgs, 1, Min2(Len(Msgs), cycle.output[1].Limit))
              /\ cycle.output[1].Returned >= 1

\* a finished cycle whose persistence failed and whose acknowledgment was sent
C7_Witness ==
    /\ cycle.pc = "done"
    /\ cycle.persistErr # ""
    /\ Len(Msgs) = 2
    /\ cycle.acks # <<>>
    /\ ~cycle.ackErr

\* C8: a failed acknowledge call leaves the cycle successful and is reported
\* as a warning of its own; the persistence warning and the acknowledgment
\* warning are set independently, and a cycle in which both fail reports both.
C8_IndependentWarnings ==
    /\ cycle.ackErr => (PastAck /\ cycle.retErr = "")
    /\ cycle.pc = "done" =>
          /\ Len(cycle.output) = 1
          /\ (cycle.output[1].AckWarning # "") <=> cycle.ackErr
          /\ (cycle.output[1].Warning # "") <=> (cycle.persistErr # "")
          /\ cycle.output[1].Warning = cycle.persistErr

\* a finished cycle in which persistence and acknowledgment both failed
C8_Witness ==
    /\ cycle.pc = "done"
    /\ cycle.ackErr
    /\ cycle.persistErr # ""
    /\ cycle.output[1].Warning # ""
    /\ cycle.output[1].AckWarning # ""

C10_AtomicBatch ==
    /\ (w.pc = "returned" /\ Len(w.msgs) > 0) =>
          table = IF w.err = ""
                  THEN InsertAll(w.startTable, w.records, 1)
                  ELSE w.startTable
    /\ tx.active => table = w.startTable
    /\ (q.made /\ w.pc # "idle") =>
          \/ q.rows \in QueryMessages(w.startTable, q.limit, q.since)
          \/ /\ w.pc = "returned"
             /\ w.err = ""
             /\ q.rows \in QueryMessages(InsertAll(w.startTable, w.records, 1),
                                         q.limit, q.since)

\* a reader's query made when one of two new rows has been executed
C10_Witness ==
    /\ q.made
    /\ q.midBatch
    /\ tx.idx = 1
    /\ Len(w.records) = 2
    /\ w.records[1].PushoverID # w.records[2].PushoverID
    /\ \A r \in table : r.PushoverID \notin {w.records[1].PushoverID,
                                             w.records[2].PushoverID}

\* C11 (as claimed): PersistMessages, LogSent and QueryMessages return the
\* "database not initialized" error whenever they are called on a Store that
\* was never opened or that has been closed.
C11_NotInitializedWhenNotOpen ==
    (db.last.op \in StoreOps /\ db.last.on \in {"nil", "closed"}) =>
        db.last.err = ErrNotInitialized

\* a query on a closed Store that returned database/sql's error
C11_Witness ==
    /\ db.last.op = "QueryMessages"
    /\ db.last.on = "closed"
    /\ db.last.err = ErrDatabaseClosed

\* the search text occurs in the text, up to the case of letters
Contains(text, search) ==
    \E i \in 0..(Len(text) - Len(search)) :
        \A j \in 1..Len(search) : Lower(text[i + j]) = Lower(search[j])

\* the stored rows that satisfy the filters as the claim states them
Satisfying(t, since, search) ==
    {r \in t : /\ since = 0 \/ r.ReceivedAt >= since
               /\ search = <<>> \/ Contains(r.Message, search) \/ Contains(r.Title, search)}

\* the rows are the n newest of the set m, newest first
IsNewestOf(rows, m, n) ==
    /\ Len(rows) = n
    /\ \A i \in 1..n : rows[i] \in m
    /\ \A i, j \in 1..n : i < j => (rows[i] # rows[j] /\ rows[i].ReceivedAt >= rows[j].ReceivedAt)
    /\ \A r \in m : (\A i \in 1..n : rows[i] # r) =>
                       \A i \in 1..n : rows[i].ReceivedAt >= r.ReceivedAt

\* C12 (as claimed): QueryMessages returns exactly the min(L, m) most recently
\* received of the m stored records whose receipt time is >= since (when
\* given) and whose body or title contains the search text (when given),
\* newest first, with L = limit if limit > 0 and 20 otherwise.
C12_NewestMatchingSubstring ==
    q.made =>
        LET m == Satisfying(table, q.since, q.search)
            L == IF q.limit > 0 THEN q.limit ELSE 20
        IN IsNewestOf(q.rows, m, Min2(L, Cardinality(m)))

\* a query for "_" that returned a row whose body and title hold no "_"
C12_Witness ==
    /\ q.made
    /\ q.search = <<"_">>
    /\ Len(q.rows) = 1
    /\ ~Contains(q.rows[1].Message, q.search)
    /\ ~Contains(q.rows[1].Title, q.search)

\* what holds of the attempts of the observed call in every state
C13_AttemptsBounded ==
    /\ \A n \in -1..3 : Attempts(n) = Max2(1, n)
    /\ Attempts(defaultRequestAttempts) = 2
    /\ call.dispatched <= Attempts(defaultRequestAttempts)
    \* a wait follows a failed attempt and is followed by no wait
    /\ call.waits <= Len(call.errs)
    /\ call.waits < Attempts(defaultRequestAttempts)
    /\ gpc[Caller] = "retryWait" => call.waits = call.dispatched
    /\ (call.pc = "done" /\ call.ret \in {"resp", "neterr"}) =>
          call.waits = call.dispatched - 1
    \* every attempt failed and nothing was cancelled: the last error
    /\ (call.pc = "done" /\ call.cancelAt = "none" /\ call.ret # "resp"
          /\ call.result.type # "precheck") =>
             /\ call.dispatched = Attempts(defaultRequestAttempts)
             /\ call.result = [type |-> "net", attempt |-> call.dispatched]

\* C13: every call of an operation terminates; it dispatches at most
\* max(1, n) exchanges for the attempt ceiling n (2 for the operations), waits
\* the retry delay only between two attempts, and returns the error of the
\* last attempt when every attempt fails at network level and nothing is
\* cancelled.
C13_TerminatesWithinAttempts ==
    /\ []C13_AttemptsBounded
    /\ (call.pc \in {"precheck", "do"}) ~> (call.pc = "done")

\* a call whose two exchanges both failed, with one wait between them
C13_Witness ==
    /\ call.pc = "done"
    /\ call.dispatched = 2
    /\ call.waits = 1
    /\ call.errs = <<1, 2>>
    /\ call.result = [type |-> "net", attempt |-> 2]

\* the observed call has returned after its first exchange brought a
\* response with status >= 400
FirstExchangeRejected ==
    /\ call.pc = "done"
    /\ call.ret = "resp"
    /\ call.errs = <<>>
    /\ call.resp.StatusCode >= 400

\* the APIError that carries what the service sent in resp: the status of
\* the JSON payload, the HTTP status when the payload names none; the request
\* id; the errors of the payload, the trimmed body when it lists none
ServiceError(resp) ==
    LET body == resp.Body
        json == body.kind = "json"
    IN [type |-> "APIError",
        Status |-> IF json /\ body.status # 0 THEN body.status ELSE resp.StatusCode,
        RequestID |-> IF json THEN body.request ELSE <<>>,
        Messages |-> IF json /\ body.errors # <<>> THEN body.errors
                     ELSE IF body.raw # <<>> THEN <<TrimSpace(body.raw)>>
                     ELSE <<>>]

\* C14 as stated: a response with status >= 400 is never retried: an
\* operation whose first exchange returns such a response dispatches exactly
\* one exchange and returns an API error carrying the service's status,
\* request id and message list.
C14_RejectionIsAPIError ==
    FirstExchangeRejected =>
        /\ call.dispatched = 1
        /\ call.result = ServiceError(call.resp)

\* C14, amended: a response with status >= 400 is never retried: an
\* operation whose first exchange returns such a response dispatches exactly
\* one exchange and returns, unless the status is 412, an API error carrying
\* the service's status, request id and message list; for status 412 it
\* returns the two-factor error value.
C14_RejectionNotRetried ==
    /\ call.resp # <<>> => call.dispatched = Len(call.errs) + 1
    /\ (call.resp # <<>> /\ call.resp.StatusCode >= 400) => call.waits = Len(call.errs)
    /\ FirstExchangeRejected =>
        /\ call.dispatched = 1
        /\ call.waits = 0
        /\ call.resp.StatusCode # 412 => call.result = ServiceError(call.resp)
        /\ call.resp.StatusCode = 412 => call.result = [type |-> "ErrTwoFactorRequired"]

\* a Send whose only exchange was answered 400 with a text body
C14_Witness ==
    /\ FirstExchangeRejected
    /\ call.op = "Send"
    /\ call.resp = [StatusCode |-> 400, Body |-> [kind |-> "text", raw |-> <<" ", "o", " ">>]]
    /\ call.result = [type |-> "APIError", Status |-> 400, RequestID |-> <<>>,
                      Messages |-> << <<"o">> >>]
    /\ call.dispatched = 1

\* the observed call has returned after c.do brought it a response
Answered ==
    /\ call.pc = "done"
    /\ call.ret = "resp"

\* C15: for every operation, a response with status 412 yields the
\* distinguished two-factor error value and never an APIError, and a response
\* with any other status >= 400 yields an APIError and never the two-factor
\* value.
C15_TwoFactorDistinguished ==
    Answered =>
        /\ call.op \in Ops
        /\ call.resp.StatusCode = 412 =>
              /\ call.result.type = "ErrTwoFactorRequired"
              /\ call.result.type # "APIError"
              /\ DOMAIN call.result = {"type"}
        /\ (call.resp.StatusCode >= 400 /\ call.resp.StatusCode # 412) =>
              /\ call.result.type = "APIError"
              /\ call.result.type # "ErrTwoFactorRequired"
        /\ call.resp.StatusCode < 400 =>
              call.result.type \notin {"APIError", "ErrTwoFactorRequired"}

\* a DeleteMessages answered 412 after a first exchange that failed
C15_Witness ==
    /\ Answered
    /\ call.op = "DeleteMessages"
    /\ call.resp.StatusCode = 412
    /\ call.errs = <<1>>
    /\ call.result = [type |-> "ErrTwoFactorRequired"]

\* the cancellation fired while the observed call was parked on the limiter
\* or on the retry timer
CancelledWhileBlocked == call.cancelAt \in {"slot", "delay"}

\* C16: whenever the caller's cancellation fires while a transport call is
\* blocked waiting for a concurrency slot or waiting out the retry delay, the
\* call returns the cancellation error without waiting further, and that call
\* dispatches no exchange after the cancellation has fired.
C16_CancelWhileBlocked ==
    CancelledWhileBlocked =>
        /\ cancelled[Caller] \/ call.pc = "done"
        /\ call.afterCancel = 0
        /\ ~Holds
        \* woken by ctx.Done(), or already on the way out with ctx.Err()
        /\ call.pc = "do" =>
              \/ /\ gpc[Caller] = (IF call.cancelAt = "slot" THEN "acquire" ELSE "retryWait")
                 /\ call.parked
                 /\ call.wake = "done"
              \/ /\ gpc[Caller] = "returned"
                 /\ gres[Caller] = "ctxerr"
        /\ call.pc = "done" =>
              /\ call.ret = "ctxerr"
              /\ call.result = [type |-> "ctx"]
        \* the delay that was cut short is the last one, and no exchange
        \* came after it
        /\ call.cancelAt = "delay" =>
              /\ call.waits = call.dispatched
              /\ call.dispatched = Len(call.errs)
        /\ call.cancelAt = "slot" => call.dispatched = call.waits

\* a call cancelled in the retry delay after its first exchange failed has
\* returned the cancellation error
C16_Witness ==
    /\ call.pc = "done"
    /\ call.cancelAt = "delay"
    /\ call.dispatched = 1
    /\ call.waits = 1
    /\ call.result = [type |-> "ctx"]
    /\ limiter = maxConcurrentRequests

\* a string with a character that is no white space
NonBlank(s) == \E i \in 1..Len(s) : s[i] # " "

\* the credentials an operation requires are all non-blank
CredentialsPresent(op, c) ==
    /\ op \in {"Send", "FetchMessages", "DeleteMessages"} =>
          NonBlank(c.AppToken) /\ NonBlank(c.UserKey)
    /\ op \in {"FetchMessages", "DeleteMessages"} =>
          NonBlank(c.DeviceID) /\ NonBlank(c.DeviceSecret)

\* the observed call has gone through its checks on a Client
Checked == call.pc \in {"do", "done"}

\* C17: Send dispatches no HTTP exchange unless app token and user key are
\* both non-blank, and FetchMessages and DeleteMessages dispatch none unless
\* in addition device id and device secret are both non-blank; in the failing
\* case an error is returned and no slot is acquired.
C17_CredentialsBeforeDispatch ==
    /\ (call.pc = "do" \/ call.dispatched > 0 \/ Holds) =>
          CredentialsPresent(call.op, call.client)
    /\ (Checked /\ ~CredentialsPresent(call.op, call.client)) =>
          /\ call.pc = "done"
          /\ call.result.type = "precheck"
          /\ call.result.msg \in {"pushover: app token not configured",
                                  "pushover: user key not configured",
                                  "pushover: device credentials missing"}
          /\ call.dispatched = 0
          /\ gpc[Caller] = "idle"
          /\ call.ret = "none"

\* a FetchMessages on a Client whose device id is white space has returned
\* the error, with both slots of the limiter free
C17_Witness ==
    /\ call.pc = "done"
    /\ call.op = "FetchMessages"
    /\ call.client = [AppToken |-> <<"t">>, UserKey |-> <<"u">>,
                      DeviceID |-> <<" ">>, DeviceSecret |-> <<"s">>]
    /\ call.result = [type |-> "precheck", msg |-> "pushover: device credentials missing"]
    /\ call.dispatched = 0
    /\ limiter = 0

\* the request of the running handler has an empty message body, a priority
\* outside -2..2, or a non-positive acknowledge id
InvalidRequest ==
    LET h == handler.name
        in == handler.input
        priority == IF h = "runSend" THEN in.Priority
                    ELSE IF in.Priority # <<>> THEN in.Priority[1]
                    ELSE handler.cfg.DefaultPriority
    IN IF h = "handleMarkRead" THEN in.MessageID <= 0
       ELSE \/ \A i \in 1..Len(in.Message) : in.Message[i] = " "
            \/ priority \notin -2..2

\* C18: an empty message body, a priority outside -2..2 (including one taken
\* from the configured default), and a non-positive acknowledge id are each
\* rejected before any network exchange and before any storage call, and are
\* never retried.
C18_InvalidRequestRejected ==
    /\ (handler.pc \notin {"idle", "validate"} /\ InvalidRequest) =>
          /\ handler.pc = "done"
          /\ handler.err \in {"app token is missing", "user key is missing",
                              "device credentials missing, run 'push login'",
                              "message cannot be empty", "message is required",
                              "priority must be between -2 and 2",
                              "message_id must be positive"}
          /\ handler.network = 0
          /\ handler.storage = <<>>
    /\ (handler.pc # "idle" /\ (handler.network > 0 \/ handler.storage # <<>>)) =>
          ~InvalidRequest

\* the tool was called without a priority under a configured default of 3
\* and has returned the range error
C18_Witness ==
    /\ handler.pc = "done"
    /\ handler.name = "handleSendNotification"
    /\ handler.input = [Message |-> <<" ", "m">>, Priority |-> <<>>]
    /\ handler.cfg.DefaultPriority = 3
    /\ handler.err = "priority must be between -2 and 2"
    /\ handler.network = 0
    /\ handler.storage = <<>>

\* the steps of the handshake: the machine of the spec, and the failure that
\* ends it from any state
HandshakeSteps ==
    {<<"Start", "LoginSubmitted">>,
     <<"LoginSubmitted", "LoginSucceeded">>,
     <<"LoginSubmitted", "TwoFactorChallenged">>,
     <<"TwoFactorChallenged", "LoginRetriedWithCode">>,
     <<"LoginRetriedWithCode", "LoginSucceeded">>,
     <<"LoginSucceeded", "DeviceRegistered">>}
    \cup {<<s, "Failed">> : s \in {"Start", "LoginSubmitted", "TwoFactorChallenged",
                                   "LoginRetriedWithCode", "LoginSucceeded"}}

\* the characters of a typed line that are no white space
Written(text) == SelectSeq(text, LAMBDA ch : ch # " ")

\* C19: the login handshake follows Start -> LoginSubmitted ->
\* {LoginSucceeded | TwoFactorChallenged} -> LoginRetriedWithCode ->
\* LoginSucceeded -> DeviceRegistered: a second login is submitted only after
\* the first returned the two-factor challenge and carries the prompted code,
\* login is submitted at most twice, and device registration is attempted
\* only after a login has succeeded.
C19_HandshakeOrder ==
    /\ login.pc # "idle" =>
          /\ login.trace[1] = "Start"
          /\ \A i \in 1..(Len(login.trace) - 1) :
                <<login.trace[i], login.trace[i + 1]>> \in HandshakeSteps
    /\ Len(login.logins) <= 2
    /\ Len(login.logins) >= 1 => login.logins[1].Code = <<>>
    /\ Len(login.logins) = 2 =>
          /\ login.results[1] = "ErrTwoFactorRequired"
          /\ login.logins[1].dispatched
          /\ login.logins[2].Code = Written(login.typed.Code)
          /\ login.logins[2].Email = login.logins[1].Email
          /\ login.logins[2].Password = login.logins[1].Password
    /\ Len(login.registers) <= 1
    /\ Len(login.registers) = 1 =>
          /\ login.results[Len(login.results)] = "nil"
          /\ Len(login.results) = Len(login.logins)
          /\ login.secret # <<>>
          /\ login.registers[1].Secret = login.secret
    /\ login.saved => login.trace[Len(login.trace)] = "DeviceRegistered"

\* a login that was challenged, retried with the code typed and ended with
\* the device registered and the configuration saved
C19_Witness ==
    /\ login.pc = "done"
    /\ login.trace = <<"Start", "LoginSubmitted", "TwoFactorChallenged",
                       "LoginRetriedWithCode", "LoginSucceeded", "DeviceRegistered">>
    /\ login.typed.Code = <<"e", " ">>
    /\ login.logins[2].Code = <<"e">>
    /\ login.saved

\* C20: Login with a blank email or a blank password fails with an error and
\* dispatches no HTTP exchange.
C20_BlankLoginRejected ==
    \A i \in 1..Len(login.logins) :
        (~NonBlank(login.logins[i].Email) \/ ~NonBlank(login.logins[i].Password)) =>
            /\ ~login.logins[i].dispatched
            /\ i = 1
            /\ Len(login.logins) = 1
            /\ login.pc = "done"
            /\ login.err = "precheck"
            /\ login.results = <<>>
            /\ login.registers = <<>>
            /\ ~NonBlank(login.typed.Email) \/ ~NonBlank(login.typed.Password)

\* an email was typed and the password line held white space only: Login
\* has returned its error
C20_Witness ==
    /\ login.pc = "done"
    /\ login.typed = [Email |-> <<"e", " ">>, Password |-> <<" ">>, Code |-> <<>>]
    /\ login.logins = <<[Email |-> <<"e">>, Password |-> <<>>, Code |-> <<>>,
                         dispatched |-> FALSE]>>
    /\ login.err = "precheck"

\* the reply to a login has a successful status and a body that decodes,
\* and names no secret
SuccessWithoutSecret(r) ==
    /\ r # NetworkFailure
    /\ r.StatusCode < 400
    /\ r.Body.kind = "json"
    /\ r.Body.secret = <<>>

\* C21: Login never returns success with an empty secret: a response with a
\* successful status and no secret is returned as an error, so device
\* registration is never attempted with an empty secret.
C21_NoSuccessWithoutSecret ==
    /\ Len(login.results) = Len(login.replies)
    /\ \A i \in 1..Len(login.replies) :
          /\ login.results[i] = "nil" =>
                /\ login.replies[i].StatusCode < 400
                /\ login.replies[i].Body.secret # <<>>
                /\ login.secret = login.replies[i].Body.secret
          /\ SuccessWithoutSecret(login.replies[i]) =>
                /\ login.results[i] = "no secret"
                /\ login.pc = "done"
                /\ login.err = "no secret"
                /\ login.registers = <<>>
                /\ ~login.saved
    /\ \A j \in 1..Len(login.registers) :
          /\ login.registers[j].Secret # <<>>
          /\ login.registers[j].Secret = login.replies[Len(login.replies)].Body.secret

\* a login answered 200 with a body that has no secret has ended with the
\* error and without a registration
C21_Witness ==
    /\ login.pc = "done"
    /\ Len(login.replies) = 1
    /\ login.replies[1].StatusCode = 200
    /\ SuccessWithoutSecret(login.replies[1])
    /\ login.err = "no secret"
    /\ login.registers = <<>>

\* the login command has succeeded: the configuration is saved
LoginSucceeded ==
    /\ login.pc = "done"
    /\ login.saved

\* C22: after a successful login command, the stored device id is the id
\* returned by device registration, or the device name supplied by the caller
\* when the service omits an explicit id; it is never left at a value from
\* before the login.
C22_StoredDeviceID ==
    LoginSucceeded =>
        login.stored.DeviceID =
            IF login.registration.ID # <<>> THEN login.registration.ID
            ELSE login.deviceName

\* the registration came back without an id and without a name: the login
\* succeeds and the configuration keeps the device id of the earlier login,
\* beside the new secret
C22_Witness ==
    /\ LoginSucceeded
    /\ login.registration.ID = <<>>
    /\ login.registration.Name = <<>>
    /\ login.deviceName = <<"n">>
    /\ login.loaded.DeviceID = <<"o">>
    /\ login.stored.DeviceID = <<"o">>
    /\ login.stored.DeviceSecret = <<"s">>

\* C23 as stated: after a successful login command, the stored device secret
\* used for receiving is the device-scoped secret yielded by the device
\* registration response.
C23_StoredSecretOfRegistration ==
    LoginSucceeded => login.stored.DeviceSecret = login.registration.Secret

\* C23, amended: after a successful login command, the stored device secret
\* used for receiving is the secret yielded by the login response, the one
\* the device registration was called with.
C23_StoredSecretOfLogin ==
    LoginSucceeded =>
        /\ login.stored.DeviceSecret = login.replies[Len(login.replies)].Body.secret
        /\ login.stored.DeviceSecret = login.registers[1].Secret
        /\ login.stored.DeviceSecret # <<>>
        /\ login.results[Len(login.results)] = "nil"

\* the registration answered with a secret of its own after a login over the
\* two-factor path: the secret of the login is the one stored
C23_Witness ==
    /\ LoginSucceeded
    /\ Len(login.replies) = 2
    /\ login.replies[2].Body.secret = <<"s">>
    /\ login.registration.Secret = <<"v">>
    /\ login.loaded.DeviceSecret = <<"w">>
    /\ login.stored.DeviceSecret = <<"s">>

\* a send handler has returned without an error: its send call succeeded
SendSucceeded ==
    /\ handler.pc = "done"
    /\ handler.name \in {"runSend", "handleSendNotification"}
    /\ handler.err = ""

\* the sequence s begins the sequence t
IsPrefix(s, t) ==
    /\ Len(s) <= Len(t)
    /\ \A i \in 1..Len(s) : s[i] = t[i]

\* the record of the send the handler made: what went out and the request
\* id that came back
RecordOfSend ==
    [Message |-> IF handler.name = "runSend"
                 THEN Written(handler.input.Message)
                 ELSE handler.input.Message,
     Priority |-> IF handler.name = "runSend" THEN handler.input.Priority
                  ELSE IF handler.input.Priority # <<>> THEN handler.input.Priority[1]
                  ELSE handler.cfg.DefaultPriority,
     RequestID |-> <<"r">>]

\* every step leaves the rows of the sent table as they are and in their
\* places, and adds at most one behind them
SentAppendOnly == IsPrefix(db.sent, db.sent') /\ Len(db.sent') <= Len(db.sent) + 1

\* C24 as stated: every send call that succeeds creates exactly one sent
\* record in the store, and the store's sent records are only ever appended,
\* never updated or deleted.
C24_ExactlyOneSentRecord ==
    SendSucceeded => db.sent = Append(handler.sent0, RecordOfSend)

\* what holds of the sent table in every state of a handler
C24_SentOfHandler ==
    /\ handler.pc # "idle" =>
          /\ IsPrefix(handler.sent0, db.sent)
          /\ Len(db.sent) <= Len(handler.sent0) + 1
    /\ SendSucceeded =>
          /\ handler.logged => db.sent = Append(handler.sent0, RecordOfSend)
          /\ ~handler.logged => db.sent = handler.sent0
          /\ handler.logged <=> handler.warning = ""

\* C24, amended: every send call that succeeds creates exactly one sent
\* record in the store unless logging the record fails, and then none; the
\* store's sent records are only ever appended, never updated or deleted.
C24_OneSentRecordAppended ==
    /\ []C24_SentOfHandler
    /\ [][SentAppendOnly]_vars

\* the second send of a table: both records are there, in their order
C24_Witness ==
    /\ SendSucceeded
    /\ handler.logged
    /\ Len(handler.sent0) = 1
    /\ db.sent = <<handler.sent0[1], RecordOfSend>>
    /\ handler.sent0[1] # RecordOfSend

\* a send handler has returned the error of its send call
SendFailed ==
    /\ handler.pc = "done"
    /\ handler.name \in {"runSend", "handleSendNotification"}
    /\ handler.err # ""

\* the handler has returned after the logging of its send failed: the Store
\* did not open, or LogSent returned an error
LoggingFailed ==
    /\ handler.pc = "done"
    /\ handler.storage # <<>>
    /\ ~handler.logged

\* C25: sending and logging are independent: a failed send creates no sent
\* record, and a failure to log the sent record does not turn a successful
\* send into a failure (the request id is still returned, with a warning).
C25_SendAndLogIndependent ==
    /\ SendFailed =>
          /\ handler.storage = <<>>
          /\ db.sent = handler.sent0
          /\ handler.requestID = <<>>
    /\ LoggingFailed =>
          /\ handler.network >= 1
          /\ handler.err = ""
          /\ handler.requestID = <<"r">>
          /\ handler.warning \in {"unable to log sent message", "failed to log history"}
          /\ db.sent = handler.sent0
    /\ (handler.pc = "done" /\ handler.logged) => handler.warning = ""

\* the tool has sent at its second attempt and LogSent has failed: the
\* request id is returned with the warning
C25_Witness ==
    /\ LoggingFailed
    /\ handler.name = "handleSendNotification"
    /\ handler.network = 2
    /\ handler.storage = <<"LogSent">>
    /\ handler.err = ""
    /\ handler.requestID = <<"r">>
    /\ handler.warning = "failed to log history"

\* the result the finished cycle returned
Out == cycle.output[1]

\* the cycle has returned a result
Returned == cycle.pc = "done" /\ cycle.output # NoOutput

\* C26: the result reports fetched count = number of fetched messages and
\* returned count = min(fetched, limit); the limit restricts only what is
\* returned: every fetched message was passed to persistence and the cursor
\* is computed over all of them.
C26_LimitRestrictsOutputOnly ==
    Returned =>
        /\ Out.Count = Len(Msgs)
        /\ Out.Returned = (IF Len(Msgs) <= Out.Limit THEN Len(Msgs) ELSE Out.Limit)
        /\ Len(Out.Messages) = Out.Returned
        /\ cycle.persistCalls = 1
        /\ w.calls = 1
        /\ w.msgs = Msgs
        /\ Explicit = 0 => cycle.ackedID = MaxIdentity(Msgs)

\* two messages fetched with limit 1: one is returned, both were passed to
\* persistence and committed, and the cursor is the identity of the message
\* that was not returned
C26_Witness ==
    /\ Returned
    /\ Len(Msgs) = 2
    /\ Out.Limit = 1
    /\ Out.Returned = 1
    /\ Out.Messages[1].PushoverID = 1
    /\ Msgs[2].PushoverID = 2
    /\ Explicit = 0
    /\ Len(w.msgs) = 2
    /\ cycle.persisted = 2
    /\ cycle.ackedID = 2

\* the number of records the PersistMessages call of the cycle committed: all
\* of the batch when its transaction committed, none otherwise
CommittedRecords == IF w.commits = 1 THEN Len(w.records) ELSE 0

\* the result of a finished check_messages call
ToolReturned == Returned /\ cycle.kind = "mcp"

\* C27: the persisted count of a cycle result is the number of fetched
\* records the cycle committed to the store; when persistence fails (a row
\* insert or the commit fails) the result reports persisted = 0 together with
\* a non-empty persistence warning.
C27_PersistedIsCommitted ==
    ToolReturned =>
        /\ Out.Persisted = CommittedRecords
        /\ cycle.persistErr # "" => (Out.Persisted = 0 /\ Out.Warning # "")

\* a check_messages call whose transaction was rolled back after one of two
\* rows had been executed, or whose commit failed: the store holds what it
\* held before the call, the warning is set, and the result reports a
\* positive persisted count
C27_Witness ==
    /\ ToolReturned
    /\ Len(Msgs) = 2
    /\ cycle.persistErr \in {"insert message", "commit messages"}
    /\ table = cycle.startTable
    /\ w.commits = 0
    /\ Out.Warning # ""
    /\ Out.Persisted > 0

\* the DeleteMessages call of the cycle was made and the service accepted it
Acknowledged == cycle.acks # <<>> /\ ~cycle.ackErr

\* C28: the acknowledged-cursor field of the cycle result is the cursor value
\* that was acknowledged to the remote service, and is 0 whenever no
\* acknowledgment was made in that cycle.
C28_AckedUpToIsAcknowledged ==
    ToolReturned =>
        /\ Acknowledged => Out.AckedUpTo = cycle.acks[Len(cycle.acks)]
        /\ ~Acknowledged => Out.AckedUpTo = 0

\* a check_messages call whose DeleteMessages failed: the result carries the
\* acknowledgment warning and a positive acknowledged cursor
C28_Witness ==
    /\ ToolReturned
    /\ Len(Msgs) > 0
    /\ cycle.ackErr
    /\ Out.AckWarning # ""
    /\ Out.AckedUpTo > 0
    /\ Out.AckedUpTo = AckCursor("mcp", cycle.result)

\* the cycle variable holds a read of the push://unread resource
ReadingUnread == cycle.kind = "unread"

\* C29: reading the push://unread resource fetches the unread messages
\* without persisting anything and without acknowledging: the local store and
\* the remote acknowledgment position are unchanged by it.
C29_UnreadReadsOnly ==
    ReadingUnread =>
        /\ cycle.persistCalls = 0
        /\ w.calls = 0
        /\ ~tx.active
        /\ table = cycle.startTable
        /\ cycle.acks = <<>>
        /\ cycle.pc \in {"unread", "served", "failed"}
        /\ cycle.pc = "served" =>
              /\ cycle.output = <<[Count |-> Len(Msgs), Data |-> Msgs]>>
              /\ cycle.retErr = ""

\* a read that returned two unread messages, one of them with the identity
\* of a row of the store and another body, and a positive cursor: ingesting
\* them would have rewritten the store and acknowledged
C29_Witness ==
    /\ ReadingUnread
    /\ cycle.pc = "served"
    /\ Len(Msgs) = 2
    /\ determineAckID(cycle.result) > 0
    /\ \E r \in table : \E i \in 1..2 :
          r.PushoverID = Msgs[i].PushoverID /\ r.Message # Msgs[i].Message

\* the fetch brought more messages than the limit lets through
OverLimit == Returned /\ Len(Msgs) > Out.Limit

\* C30: when more messages are fetched than the limit, the returned messages
\* are the `limit` fetched messages with the highest remote identities.
C30_ReturnsNewest ==
    OverLimit =>
        /\ Len(Out.Messages) = Out.Limit
        /\ \A i \in 1..Len(Out.Messages) : \A k \in 1..Len(Msgs) :
              Msgs[k].PushoverID > Out.Messages[i].PushoverID =>
                  \E j \in 1..Len(Out.Messages) : Out.Messages[j] = Msgs[k]

\* the service lists message 1 before message 2 and the limit is 1: the
\* message returned is the older one
C30_Witness ==
    /\ OverLimit
    /\ Out.Limit = 1
    /\ Msgs[1].PushoverID = 1
    /\ Msgs[2].PushoverID = 2
    /\ Out.Messages = <<Msgs[1]>>

\* the logout command has returned nil
LoggedOut == login.pc = "done" /\ login.err = ""

\* the configuration the file held before the command ran
Before == Load(login.file0)

\* C31: logout clears the stored device id and device secret and leaves app
\* token, user key, default device and default priority unchanged; when no
\* device credentials are stored it writes nothing.
C31_LogoutClearsDeviceOnly ==
    LoggedOut =>
        /\ Load(login.file).DeviceID = ""
        /\ Load(login.file).DeviceSecret = ""
        /\ Load(login.file).AppToken = Before.AppToken
        /\ Load(login.file).UserKey = Before.UserKey
        /\ Load(login.file).DefaultDevice = Before.DefaultDevice
        /\ Load(login.file).DefaultPriority = Before.DefaultPriority
        /\ (Before.DeviceID = "" /\ Before.DeviceSecret = "") =>
              (login.saves = 0 /\ login.file = login.file0)
        /\ (Before.DeviceID # "" \/ Before.DeviceSecret # "") => login.saves = 1

\* a logout on a file that held every key: the device credentials are gone
\* from the file and the other keys are there
C31_Witness ==
    /\ LoggedOut
    /\ Before.DeviceID = "d"
    /\ Before.DeviceSecret = "s"
    /\ Before.AppToken = "t"
    /\ Before.UserKey = "u"
    /\ Before.DefaultDevice = "n"
    /\ Before.DefaultPriority = 1
    /\ login.saves = 1
    /\ login.file.exists
    /\ login.file.keys.DeviceID = ""
    /\ login.file.keys.AppToken = "t"

\* the i-th fetched message is covered by the acknowledgment the service
\* accepted
Covered(i) == Acknowledged /\ Msgs[i].PushoverID <= cycle.acks[Len(cycle.acks)]

\* the i-th fetched message is among the messages returned to the caller
ReturnedToCaller(i) == \E j \in 1..Len(Out.Messages) : Out.Messages[j] = Msgs[i]

\* C32: no fetched message is lost by a cycle: every message covered by the
\* cycle's acknowledgment was either committed to the local store or
\* returned to the caller, including when persistence fails and more
\* messages were fetched than the limit.
C32_NoFetchedMessageLost ==
    Returned =>
        \A i \in 1..Len(Msgs) :
            Covered(i) => (w.commits = 1 \/ ReturnedToCaller(i))

\* two messages fetched with limit 1, persistence failed, the acknowledgment
\* of cursor 2 accepted: message 2 is in no row of the store and was not
\* returned
C32_Witness ==
    /\ Returned
    /\ Len(Msgs) = 2
    /\ Out.Limit = 1
    /\ cycle.persistErr # ""
    /\ w.commits = 0
    /\ Msgs[2].PushoverID = 2
    /\ Covered(2)
    /\ ~ReturnedToCaller(2)
    /\ \A r \in table : r.PushoverID # 2

\* the messages command has ended after a fetch that succeeded with a
\* positive cursor
CommandEndedAfterFetch ==
    /\ cycle.kind = "cli"
    /\ cycle.pc \in {"done", "failed"}
    /\ cycle.fetched
    /\ highestMessageID(cycle.result, Msgs) > 0

\* C33: in the messages command, once the fetch has succeeded with a positive
\* cursor, the acknowledge call is issued and the fetched messages are
\* printed before the command ends, whatever fails in the storage step,
\* including a failure to open the store.
C33_CommandAcksAndPrints ==
    CommandEndedAfterFetch =>
        /\ cycle.acks = <<highestMessageID(cycle.result, Msgs)>>
        /\ cycle.output # NoOutput
        /\ Len(Out.Messages) = Min2(Len(Msgs), Out.Limit)

\* openStore() failed after a fetch of messages: the command has returned the
\* error with no DeleteMessages call and nothing printed
C33_Witness ==
    /\ CommandEndedAfterFetch
    /\ Len(Msgs) > 0
    /\ cycle.pc = "failed"
    /\ cycle.retErr = "open database"
    /\ cycle.persistCalls = 0
    /\ cycle.acks = <<>>
    /\ cycle.output = NoOutput

\* a step that issues an acknowledge operation
AckIssued == cycle'.acks # cycle.acks

\* an acknowledge operation is the first of its cycle and is issued between
\* the return of the persistence attempt and the output
AckStep ==
    AckIssued =>
        /\ cycle.acks = <<>>
        /\ Len(cycle'.acks) = 1
        /\ cycle.persistDone
        /\ cycle.persistCalls = 1
        /\ w.pc = "idle"
        /\ ~tx.active
        /\ cycle.output = NoOutput
        /\ cycle.pc \notin {"done", "failed"}

\* at most one acknowledge operation, and none without a finished
\* persistence attempt
C34_AtMostOneAck ==
    /\ Len(cycle.acks) <= 1
    /\ cycle.acks # <<>> => cycle.persistDone

\* C34: one ingestion cycle issues at most one acknowledge operation, and
\* issues it after the persistence attempt of that cycle has finished and
\* before the result is returned.
C34_OneAckAfterPersist == []C34_AtMostOneAck /\ [][AckStep]_vars

\* a finished cycle whose persistence attempt failed and whose one
\* acknowledge operation was issued after it
C34_Witness ==
    /\ Returned
    /\ cycle.persistDone
    /\ cycle.persistErr # ""
    /\ Len(cycle.acks) = 1
    /\ Len(Msgs) = 2

\* the HTTP exchanges the server process has in flight, over all the Clients
\* of its handlers
ServerInFlight == {g \in Procs : call[g] # NoInvocation /\ gpc[g] = "inflight"}

\* C35: across concurrent tool invocations and resource reads served by one
\* MCP server process, the number of simultaneously in-flight HTTP exchanges
\* to the remote service never exceeds 2, whichever operations issued them.
C35_ServerAtMostTwoInFlight == Cardinality(ServerInFlight) <= maxConcurrentRequests

\* a tool call, another tool call and a resource read, each with an exchange
\* in flight through a limiter of its own that holds one slot
C35_Witness ==
    /\ Cardinality(ServerInFlight) = 3
    /\ \A g \in Procs : limiter[g] = 1
    /\ \E g \in Procs : call[g].name = "check_messages"
    /\ \E g \in Procs : call[g].name = "send_notification"
    /\ \E g \in Procs : call[g].name = "push://unread"

\* the calls inside doOnce past its select: their exchange is in flight, or
\* client.Do has just returned and doOnce is returning
InDoOnce == {g \in Procs : gpc[g] \in {"inflight", "release"}}

\* C36: in every reachable state the number of occupied limiter slots of a
\* Client equals the number of its exchanges in flight: a slot is released
\* when the round trip returns, with a response or an error, no slot is held
\* during the retry delay or after the call has returned, and all slots are
\* free when no call is active.
C36_SlotsAreExchanges ==
    /\ limiter = Cardinality(InDoOnce)
    /\ limiter \in 0..maxConcurrentRequests
    /\ (\A g \in Procs : gpc[g] \in {"idle", "loop", "acquire", "retryWait", "returned"})
          => limiter = 0
    /\ (\A g \in Procs : gpc[g] = "idle") => limiter = 0

\* one call waits out its retry delay after a failed round trip, one has
\* returned, one has an exchange in flight: one slot is occupied
C36_Witness ==
    /\ \E g \in Procs : gpc[g] = "retryWait" /\ gres[g] = "neterr"
    /\ \E g \in Procs : gpc[g] = "returned"
    /\ \E g \in Procs : gpc[g] = "inflight"
    /\ limiter = 1

\* C37: the messages command and the check_messages tool compute the same
\* acknowledgment cursor for every fetch result:
\* highestMessageID(result, result.Messages) equals determineAckID(result).
C37_SameCursor ==
    cycle.fetched =>
        /\ highestMessageID(cycle.result, cycle.result.Messages)
              = determineAckID(cycle.result)
        /\ PastAck => cycle.ackedID = highestMessageID(cycle.result, cycle.result.Messages)
        /\ PastAck => cycle.ackedID = determineAckID(cycle.result)

\* a fetch result whose explicit cursor 1 is below the identity of a fetched
\* message, past the acknowledgment step of the tool: both functions give 1
C37_Witness ==
    /\ cycle.fetched
    /\ cycle.kind = "mcp"
    /\ PastAck
    /\ Len(Msgs) = 2
    /\ Explicit = 1
    /\ MaxIdentity(Msgs) = 2
    /\ highestMessageID(cycle.result, Msgs) = 1
    /\ cycle.ackedID = 1

\* the last step of the handshake so far
LastStep == login.trace[Len(login.trace)]

\* the configuration file is as the command found it
ConfigUntouched == login.stored = login.loaded

\* a step of the login command that changes the configuration file
ConfigWritten == login.pc # "idle" /\ login'.stored # login.stored

\* the file is written by the save step only, after the registration
ConfigWriteStep ==
    ConfigWritten =>
        /\ login.pc = "save"
        /\ LastStep = "DeviceRegistered"
        /\ login'.saved

\* a saved configuration follows a login and a registration that succeeded;
\* a command that failed before the save has left the file as it was
C38_SavedAfterRegistration ==
    /\ login.saved =>
          /\ LastStep = "DeviceRegistered"
          /\ login.results[Len(login.results)] = "nil"
          /\ Len(login.registers) = 1
          /\ login.registers[1].dispatched
          /\ login.registration # <<>>
    /\ (login.pc # "idle" /\ ~login.saved) => ConfigUntouched
    /\ (login.pc = "done" /\ LastStep = "Failed") =>
          (~login.saved /\ login.err # "" /\ ConfigUntouched)

\* C38: the login command writes the configuration only after both login and
\* device registration have succeeded: if the first login, the 2FA prompt,
\* the retried login or the registration fails, the stored configuration is
\* unchanged.
C38_ConfigWrittenAfterSuccess ==
    []C38_SavedAfterRegistration /\ [][ConfigWriteStep]_vars

\* a login that was challenged, succeeded with the code, and whose device
\* registration failed: the file holds the device id and secret from before
C38_Witness ==
    /\ login.pc = "done"
    /\ login.trace = <<"Start", "LoginSubmitted", "TwoFactorChallenged",
                       "LoginRetriedWithCode", "LoginSucceeded", "Failed">>
    /\ Len(login.registers) = 1
    /\ login.registers[1].dispatched
    /\ login.err # ""
    /\ ~login.saved
    /\ login.loaded = [DeviceID |-> <<"o">>, DeviceSecret |-> <<"w">>]
    /\ login.stored = login.loaded

\* the PersistReceived call has returned with its batch committed
BatchCommitted == w.pc = "returned" /\ w.err = "" /\ Len(w.msgs) > 0

\* the call wrote the row of this remote identity
WrittenByCall(id) == \E i \in 1..Len(w.msgs) : w.msgs[i].PushoverID = id

====
